---- MODULE Spec2Model ----
(***************************************************************************)
(* Job / chunk state machine of the STT service: the orchestrator          *)
(* operations (core/orchestrator.py), the worker pipeline                  *)
(* (workers/tasks.py, _process_transcription_job) with the retry engine    *)
(* (core/retry.py), the webhook task (workers/tasks.py, _send_webhook),    *)
(* the repositories (db/repositories/*.py) and startup stale-job recovery  *)
(* (main.py).                                                              *)
(*                                                                         *)
(* One job id is followed through its life.  Every `async with             *)
(* get_db_context()` block of the worker and every orchestrator request    *)
(* transaction is one atomic step; blob-store I/O and provider calls are   *)
(* steps of their own, so that other processes interleave between them.    *)
(* Chunk.attempt_count, timestamps other than staleness and the job's      *)
(* configuration are not represented.                                      *)
(*                                                                         *)
(* The daily janitor (workers/tasks.py, _cleanup_expired_jobs) is one more *)
(* step on the job.  The pure helpers are followed as calls of their own,  *)
(* from their arguments to their return value: the chunk boundary          *)
(* calculation (core/chunker.py), the transcript merge (core/merger.py)    *)
(* and the coverage check (workers/tasks.py, _check_coverage_gap).         *)
(***************************************************************************)
EXTENDS Integers, Sequences, FiniteSets, TLC

\* ---------------------------------------------------------------- bounds
\* Largest number of chunks an uploaded recording is split into.
MaxChunks == 2
\* Messages of the job that may be queued or being processed at once.
MaxQueue == 2
\* settings.retry.max_retries (RETRY_MAX_RETRIES), the retry engine's budget.
max_retries == 1
\* Cap on Job.completed_chunks (the counter is unbounded under races).
MaxCompleted == 3
\* Cap on the number of webhook POSTs that are counted.
MaxPosts == 2
\* Longest recording given to the chunker, in seconds.
MaxDuration == 12
\* Largest max_chunk_duration given to the chunker, in seconds.
MaxChunkDuration == 3
\* Largest number of silence points detected in a recording.
MaxSilence == 2
\* Length in seconds of the chunks whose results are merged.
ChunkSeconds == 4
\* Largest number of segments in the provider responses of one job.
MaxSegments == 2
\* Last reading of time.monotonic() that is followed, in seconds.
MaxClock == 3
\* Reports to the rate limiter that are followed one after the other.
MaxReports == 9
\* Reports to the rate limiter that are followed under concurrent use.
MaxContended == 2
\* Longest lead-in or tail a provider result leaves uncovered, in seconds.
MaxGap == 7

\* ------------------------------------------------------------- constants
\* process_transcription_job: @celery_app.task(bind=True, max_retries=3)
task_max_retries == 3
\* max_coverage_retries = 2
max_coverage_retries == 2
\* gap_threshold = max(5.0, chunk.duration * 0.2), for chunks of at most 25 s
gap_threshold == 5
\* send_webhook: @celery_app.task(bind=True, max_retries=5)
send_webhook_max_retries == 5
\* TranscriptMerger.__init__(overlap_threshold=2.0), as the worker builds it
overlap_threshold == 2
\* settings.providers.gemini_rpm_limit: int = 60
gemini_rpm_limit == 60

Workers == {"w1", "w2"}

\* A chunk row / worker slot without a result.
NoResult == -1

\* Provider results, identified by the coverage gap _check_coverage_gap finds
\* in them: 0 stands for None (covered), the others exceed the threshold.
Results == {0, gap_threshold + 1, gap_threshold + 2}

VARIABLES
    life,      \* "new": id not yet created, "live": job row exists, "gone": deleted
    job,       \* the job row (meaningful while life = "live")
    chunks,    \* chunk rows of the job: chunk_index -> [status, result]
    blobs,     \* keys of the job present in blob storage
    audio,     \* number of chunks the stored original recording yields
    queue,     \* process_transcription_job messages: request.retries -> count
    up,        \* position of an upload_audio request
    del,       \* position of a delete_job request
    wk,        \* per worker: position and locals of _process_transcription_job
    delMid,    \* a delete_job started while a worker was inside a provider
               \* call or its retry callback, and no upload has run since
    raised,    \* errors orchestrator requests were rejected with so far
    hook,      \* send_webhook: its messages, its task's position, POSTs made
    cb,        \* a call of AudioChunker.calculate_chunk_boundaries
    mt,        \* a call of TranscriptMerger.merge_transcripts
    cg,        \* a call of _check_coverage_gap
    rl,        \* the process's rate_limiter singleton, its clock and callers
    rt,        \* a call of retry_with_backoff
    cv         \* the coverage check and retransmissions of one chunk

\* The calls of the helpers and the rate limiter, followed on their own.
calls == <<cb, mt, cg, rl, rt, cv>>

vars == <<life, job, chunks, blobs, audio, queue, up, del, wk, delMid,
          raised, hook, calls>>

\* ---------------------------------------------------------------- rows
\* Job(...) column defaults, status PENDING (JobRepository.create).
NewJob ==
    [status |-> "pending", total_chunks |-> 0, completed_chunks |-> 0,
     s3_original_key |-> FALSE, s3_result_key |-> FALSE,
     error_message |-> FALSE, error_code |-> FALSE, stale |-> FALSE,
     webhook_url |-> FALSE, webhook_sent |-> FALSE, expired |-> FALSE]

\* Chunk(...) as created by ChunkRepository.create_many.
NewChunk == [status |-> "pending", result |-> NoResult]

NoChunks == [i \in {} |-> NewChunk]

JobExists == life = "live"

\* Every UPDATE of the job row refreshes updated_at (onupdate=func.now()).
Touch(j) == [j EXCEPT !.stale = FALSE]

\* A status update that also clears the progress counter.
update_status_clearing(j, st) ==
    Touch([j EXCEPT !.status = st, !.completed_chunks = 0])

\* JobRepository.update_status(job_id, status): the status column only (and
\* started_at / completed_at, which are not represented).
update_status(j, st) == Touch([j EXCEPT !.status = st])

\* A worker that is not running a task; ret is the last task's return value.
IdleWorker(r) ==
    [pc |-> "idle", tries |-> 0, has_chunks |-> FALSE, n |-> 0, idx |-> 0,
     rid |-> FALSE, attempt |-> 0, cov |-> 0, cur |-> NoResult,
     results |-> <<>>, err |-> "none", ret |-> r]

QueueLen == queue[0] + queue[1] + queue[2] + queue[3]

Busy == Cardinality({w \in Workers : wk[w].pc # "idle"})

\* process_transcription_job.delay(job_id): a message with request.retries = 0.
Enqueue(q, r) == [q EXCEPT ![r] = @ + 1]

\* No send_webhook message queued, no send_webhook task running, no POST made.
NoHook ==
    [queue |-> [r \in 0..send_webhook_max_retries |-> 0], pc |-> "idle",
     tries |-> 0, posts |-> 0]

\* No helper call is being followed.
NoCall == [pc |-> "none"]

\* rate_limiter = RateLimiter(): no bucket and no lock for the provider
\* (lock 0 stands for a provider that is not in _locks, created counts the
\* asyncio.Lock objects made for it, held are the locks that are taken);
\* time.monotonic() reads now; the coroutines of the event loop are outside
\* the limiter, ret being what a coroutine's last operation returned.
NewLimiter ==
    [bucket |-> <<>>, lock |-> 0, created |-> 0, held |-> {}, now |-> 0,
     reports |-> 0,
     task |-> [t \in {"t1", "t2"} |->
                [pc |-> "idle", op |-> "none", retry_after |-> <<>>,
                 lock |-> 0, until |-> <<>>, ret |-> <<>>]]]

InitService ==
    /\ life = "new"
    /\ job = NewJob
    /\ chunks = NoChunks
    /\ blobs = {}
    /\ audio = 0
    /\ queue = [r \in 0..task_max_retries |-> 0]
    /\ up = "idle"
    /\ del = "idle"
    /\ wk = [w \in Workers |-> IdleWorker("none")]
    /\ delMid = FALSE
    /\ raised = {}
    /\ hook = NoHook

Init ==
    /\ InitService
    /\ cb = NoCall
    /\ mt = NoCall
    /\ cg = NoCall
    /\ rl = NewLimiter
    /\ rt = NoCall
    /\ cv = NoCall

\* ------------------------------------------------------- orchestrator
\* JobOrchestrator.create_job -> JobRepository.create
CreateJob ==
    /\ life = "new"
    /\ life' = "live"
    /\ job' = NewJob
    /\ UNCHANGED <<chunks, blobs, audio, queue, up, del, wk, delMid,
                 raised, hook, calls>>

\* upload_audio, first half: storage.upload_file of the original recording.
\* No status is read; the job row is not even loaded.
UploadStore ==
    /\ life # "new"
    /\ up = "idle"
    /\ \E n \in 1..MaxChunks : audio' = n
    /\ blobs' = blobs \cup {"original"}
    /\ up' = "stored"
    /\ delMid' = FALSE
    /\ UNCHANGED <<life, job, chunks, queue, del, wk, raised, hook, calls>>

\* JobRepository.update_file_info: status = UPLOADED, unconditionally.
update_file_info(j) ==
    Touch([j EXCEPT !.s3_original_key = TRUE, !.status = "uploaded"])

\* upload_audio, second half: probe, then job_repo.update_file_info.
\* On a deleted job the UPDATE matches no row and get_by_id raises.
UploadCommit ==
    /\ up = "stored"
    /\ up' = "idle"
    /\ job' = IF JobExists THEN update_file_info(job) ELSE job
    /\ UNCHANGED <<life, chunks, blobs, audio, queue, del, wk, delMid,
                 raised, hook, calls>>

\* submit_job: status in [PENDING, UPLOADED] and s3_original_key set.
CanSubmit(j) == j.status \in {"pending", "uploaded"} /\ j.s3_original_key

SubmitJob ==
    /\ JobExists
    /\ CanSubmit(job)
    /\ QueueLen + Busy < MaxQueue
    /\ queue' = Enqueue(queue, 0)
    /\ UNCHANGED <<life, job, chunks, blobs, audio, up, del, wk, delMid,
                 raised, hook, calls>>

\* A reset that puts every chunk of the job back to PENDING.
ResetsEveryChunk(cs) ==
    [i \in DOMAIN cs |-> [cs[i] EXCEPT !.status = "pending"]]

\* ChunkRepository.reset_failed_chunks
reset_failed_chunks(cs) ==
    [i \in DOMAIN cs |->
        IF cs[i].status = "failed" THEN [cs[i] EXCEPT !.status = "pending"]
        ELSE cs[i]]

\* A retry that also takes a cancelled job.
CanRetryCancelled(j) == j.status \in {"failed", "cancelled"}

\* if job.status != JobStatus.FAILED: raise ValueError
CanRetry(j) == j.status = "failed"

\* retry_job: only FAILED jobs; reset failed chunks, PROCESSING, re-queue.
RetryJob ==
    /\ JobExists
    /\ CanRetry(job)
    /\ QueueLen + Busy < MaxQueue
    /\ chunks' = reset_failed_chunks(chunks)
    /\ job' = update_status(job, "processing")
    /\ queue' = Enqueue(queue, 0)
    /\ UNCHANGED <<life, blobs, audio, up, del, wk, delMid, raised, hook, calls>>

\* retry_job on a job that is not FAILED raises ValueError (HTTP 400), on a
\* job id without a row JobNotFoundError (HTTP 404), before it writes anything.
RetryRejected ==
    /\ ~(JobExists /\ CanRetry(job))
    /\ raised' = raised \cup
            {<<"retry_job",
               IF JobExists THEN "ValueError" ELSE "JobNotFoundError">>}
    /\ UNCHANGED <<life, job, chunks, blobs, audio, queue, up, del, wk, delMid,
                 hook, calls>>

\* cancel_job: rejected only for COMPLETED and CANCELLED.
CanCancel(j) == j.status \notin {"completed", "cancelled"}

CancelJob ==
    /\ JobExists
    /\ CanCancel(job)
    /\ job' = update_status(job, "cancelled")
    /\ UNCHANGED <<life, chunks, blobs, audio, queue, up, del, wk, delMid,
                 raised, hook, calls>>

\* delete_job keys_to_delete: the keys recorded on the job row when it is read
\* (chunk rows never carry an s3_chunk_key: create_many is given None).
keys_to_delete(j) ==
    (IF j.s3_original_key THEN {"original"} ELSE {})
        \cup (IF j.s3_result_key THEN {"result"} ELSE {})

MidChunk(w) == wk[w].pc \in {"call", "onretry"}

\* delete_job, first half: load the job, storage.delete_files(keys_to_delete).
DeleteBlobs ==
    /\ JobExists
    /\ del = "idle"
    /\ blobs' = blobs \ keys_to_delete(job)
    /\ del' = "blobs"
    /\ delMid' = (delMid \/ \E w \in Workers : MidChunk(w))
    /\ UNCHANGED <<life, job, chunks, audio, queue, up, wk, raised, hook, calls>>

\* delete_job, second half: job_repo.delete, cascading to the chunk rows.
DeleteRow ==
    /\ del = "blobs"
    /\ del' = "idle"
    /\ life' = "gone"
    /\ job' = NewJob
    /\ chunks' = NoChunks
    /\ UNCHANGED <<blobs, audio, queue, up, wk, delMid, raised, hook, calls>>

\* delete_job for a job id without a row: get_by_id(job_id,
\* include_chunks=True) raises JobNotFoundError (HTTP 404) before anything is
\* deleted.
DeleteMissing ==
    /\ ~JobExists
    /\ del = "idle"
    /\ raised' = raised \cup {<<"delete_job", "JobNotFoundError">>}
    /\ UNCHANGED <<life, job, chunks, blobs, audio, queue, up, del, wk, delMid,
                 hook, calls>>

\* ------------------------------------------------- startup recovery
\* stale_minutes (30) pass without an update of the job row, whatever its
\* status.
Age ==
    /\ JobExists
    /\ ~job.stale
    /\ job' = [job EXCEPT !.stale = TRUE]
    /\ UNCHANGED <<life, chunks, blobs, audio, queue, up, del, wk, delMid,
                 raised, hook, calls>>

\* A recovery that sweeps stale PROCESSING jobs only.
FailsStaleProcessing(j) ==
    IF j.status = "processing" /\ j.stale
    THEN Touch([j EXCEPT !.status = "failed", !.error_message = TRUE])
    ELSE j

\* A recovery that fails every unfinished job, whatever its age.
FailsUnfinished(j) ==
    IF j.status \in {"processing", "uploaded"}
    THEN Touch([j EXCEPT !.status = "failed", !.error_message = TRUE])
    ELSE j

\* JobRepository.fail_stale_jobs, run by main.py lifespan at startup.
fail_stale_jobs(j) ==
    IF j.status \in {"processing", "uploaded"} /\ j.stale
    THEN Touch([j EXCEPT !.status = "failed", !.error_message = TRUE])
    ELSE j

\* The service starts: repo.fail_stale_jobs(stale_minutes=30) and commit.
Recover ==
    /\ JobExists
    /\ job' = fail_stale_jobs(job)
    /\ UNCHANGED <<life, chunks, blobs, audio, queue, up, del, wk, delMid,
                 raised, hook, calls>>

OrchestratorNext ==
    \/ CreateJob
    \/ UploadStore
    \/ UploadCommit
    \/ SubmitJob
    \/ RetryJob
    \/ RetryRejected
    \/ CancelJob
    \/ DeleteBlobs
    \/ DeleteRow
    \/ DeleteMissing
    \/ Age
    \/ Recover

\* ---------------------------------------------------------------- worker
\* An admit test that lets a FAILED job through as well.
AdmitsFailed(j) == j.status \in {"uploaded", "processing", "failed"}

\* if job.status not in [JobStatus.UPLOADED, JobStatus.PROCESSING]: return
Admissible(j) == j.status \in {"uploaded", "processing"}

\* Return value of a delivery that is not admitted; a delivery with
\* request.retries > 0 is the task's own retry.
SkipValue(r) == IF r > 0 THEN "skipped_retry" ELSE "skipped"

\* DB Operation 1: a worker takes a message, loads the job and admits it.
\* JobNotFoundError (job deleted) ends the task with status "cancelled".
Deliver(w) ==
    /\ wk[w].pc = "idle"
    /\ \E r \in 0..task_max_retries :
        /\ queue[r] > 0
        /\ queue' = [queue EXCEPT ![r] = @ - 1]
        /\ IF ~JobExists
           THEN /\ wk' = [wk EXCEPT ![w] = IdleWorker("cancelled")]
                /\ job' = job
           ELSE IF ~Admissible(job)
           THEN /\ wk' = [wk EXCEPT ![w] = IdleWorker(SkipValue(r))]
                /\ job' = job
           ELSE /\ job' = update_status(job, "processing")
                /\ wk' = [wk EXCEPT ![w] =
                            [IdleWorker("none") EXCEPT
                                !.pc = "fetch", !.tries = r,
                                !.has_chunks = (DOMAIN chunks # {})]]
    /\ UNCHANGED <<life, chunks, blobs, audio, up, del, delMid, raised, hook, calls>>

\* An exception outside the chunk loop reaches the task's generic handler.
Raise(rec, e) == [rec EXCEPT !.pc = "jobfail", !.err = e]

\* Download the original, normalise it and compute the chunk descriptors.
\* A missing blob (StorageError) or a transcoder failure (ChunkingError)
\* raises; otherwise the list has as many chunks as the recording yields.
Fetch(w) ==
    /\ wk[w].pc = "fetch"
    /\ \E ok \in BOOLEAN :
        wk' = [wk EXCEPT ![w] =
                IF ok /\ "original" \in blobs
                THEN [@ EXCEPT !.n = audio,
                               !.pc = IF wk[w].has_chunks THEN "check"
                                      ELSE "create"]
                ELSE Raise(@, "other")]
    /\ UNCHANGED <<life, job, chunks, blobs, audio, queue, up, del, delMid,
                 raised, hook, calls>>

\* ChunkRepository.create_many: n rows in PENDING.
create_many(n) == [i \in 0..(n - 1) |-> NewChunk]

\* DB Operation 2 (only if not job_has_chunks): create_many and
\* update_chunk_counts(total_chunks=len(chunks)) in one transaction.  The
\* unique index (job_id, chunk_index) and the foreign key to the job row make
\* the INSERT raise IntegrityError when rows exist or the job is gone.
CreateChunks(w) ==
    /\ wk[w].pc = "create"
    /\ IF JobExists /\ DOMAIN chunks = {}
       THEN /\ chunks' = create_many(wk[w].n)
            /\ job' = Touch([job EXCEPT !.total_chunks = wk[w].n])
            /\ wk' = [wk EXCEPT ![w].pc = "check"]
       ELSE /\ wk' = [wk EXCEPT ![w] = Raise(@, "other")]
            /\ UNCHANGED <<job, chunks>>
    /\ UNCHANGED <<life, blobs, audio, queue, up, del, delMid, raised, hook, calls>>

\* End of one iteration of `for chunk in chunks`: next chunk, or merge.
Advance(rec, r) ==
    [rec EXCEPT !.results = Append(@, r),
                !.idx = IF rec.idx + 1 < rec.n THEN @ + 1 ELSE @,
                !.pc = IF rec.idx + 1 < rec.n THEN "check" ELSE "upload",
                !.rid = FALSE, !.attempt = 0, !.cov = 0, !.cur = NoResult,
                !.err = "none"]

\* A skip that appends nothing in place of the stored result.
DroppedResult(row) == NoResult

\* The stored result a completed chunk contributes to the results list.
StoredResult(row) == row.result

\* if chunk_record and chunk_record.status == ChunkStatus.COMPLETED
IsCompleted(i) == i \in DOMAIN chunks /\ chunks[i].status = "completed"

\* DB Operation 3: a completed chunk is skipped with its stored result, any
\* other existing row is marked PROCESSING; without a row the chunk is
\* transcribed with chunk_record_id = None.
CheckChunk(w) ==
    /\ wk[w].pc = "check"
    /\ LET i == wk[w].idx IN
        IF IsCompleted(i)
        THEN /\ wk' = [wk EXCEPT ![w] = Advance(@, StoredResult(chunks[i]))]
             /\ chunks' = chunks
        ELSE IF i \in DOMAIN chunks
        THEN /\ chunks' = [chunks EXCEPT ![i].status = "processing"]
             /\ wk' = [wk EXCEPT ![w].pc = "call", ![w].rid = TRUE]
        ELSE /\ wk' = [wk EXCEPT ![w].pc = "call", ![w].rid = FALSE]
             /\ chunks' = chunks
    /\ UNCHANGED <<life, job, blobs, audio, queue, up, del, delMid,
                 raised, hook, calls>>

\* A retry engine that treats every error as retryable.
PropagatesWhenExhausted(kind, attempt) == attempt >= max_retries

\* retry_with_backoff: a non-retryable ProviderError, or any error on the
\* attempt numbered max_retries, is re-raised; anything else is retried.
Propagates(kind, attempt) == kind = "fatal" \/ attempt >= max_retries

\* _check_coverage_gap returned None
IsNone(g) == g = 0

\* coverage_gap and coverage_gap > gap_threshold
GapTooBig(g) == ~IsNone(g) /\ g > gap_threshold

\* The worker after a provider call of the current chunk returned result g:
\* the first transmission (cov = 0) opens the coverage loop when its gap is
\* too big; a retransmission replaces the kept result when its gap is smaller
\* and ends the loop when the gap is resolved or max_coverage_retries is used.
AfterResult(rec, g) ==
    IF rec.cov = 0
    THEN IF GapTooBig(g)
         THEN [rec EXCEPT !.cur = g, !.cov = 1, !.attempt = 0, !.err = "none"]
         ELSE [rec EXCEPT !.cur = g, !.pc = "persist", !.attempt = 0,
                          !.err = "none"]
    ELSE LET better == IsNone(g) \/ g < rec.cur
             kept == IF better THEN g ELSE rec.cur
             resolved == better /\ ~GapTooBig(g)
         IN IF resolved \/ rec.cov >= max_coverage_retries
            THEN [rec EXCEPT !.cur = kept, !.pc = "persist", !.attempt = 0,
                             !.cov = 0, !.err = "none"]
            ELSE [rec EXCEPT !.cur = kept, !.cov = @ + 1, !.attempt = 0,
                             !.err = "none"]

\* The worker after a provider call raised an error of the given kind.
AfterError(rec, kind) ==
    IF Propagates(kind, rec.attempt)
    THEN [rec EXCEPT !.pc = "chunkfail", !.err = kind]
    ELSE [rec EXCEPT !.pc = "onretry", !.err = kind]

\* One attempt of retry_with_backoff inside _process_single_chunk: acquire,
\* provider.transcribe, and the handling of what it returns or raises.
\* "retryable" covers RateLimitError, retryable ProviderError and any other
\* exception; "fatal" is ProviderError(retryable=False).
CallOk(w) ==
    /\ wk[w].pc = "call"
    /\ \E g \in Results : wk' = [wk EXCEPT ![w] = AfterResult(@, g)]
    /\ UNCHANGED <<life, job, chunks, blobs, audio, queue, up, del, delMid,
                 raised, hook, calls>>

CallError(w) ==
    /\ wk[w].pc = "call"
    /\ \E kind \in {"retryable", "fatal"} :
        wk' = [wk EXCEPT ![w] = AfterError(@, kind)]
    /\ UNCHANGED <<life, job, chunks, blobs, audio, queue, up, del, delMid,
                 raised, hook, calls>>

\* on_retry_check: JobCancelledError if the job is gone or not in
\* [UPLOADED, PROCESSING]
StillWanted == JobExists /\ job.status \in {"uploaded", "processing"}

\* The retry callback, then the sleep and the next attempt.
OnRetry(w) ==
    /\ wk[w].pc = "onretry"
    /\ wk' = [wk EXCEPT ![w] =
                IF StillWanted
                THEN [@ EXCEPT !.pc = "call", !.attempt = @ + 1]
                ELSE [@ EXCEPT !.pc = "chunkfail", !.err = "cancelled"]]
    /\ UNCHANGED <<life, job, chunks, blobs, audio, queue, up, del, delMid,
                 raised, hook, calls>>

\* An exception handler that leaves the chunk row as it is.
LeavesChunkRow(cs, rec) == cs

\* `except Exception` of the chunk loop: the chunk row is marked FAILED
\* whatever was raised (if chunk_record_id), then the exception is re-raised:
\* JobCancelledError / JobNotFoundError end the task with "cancelled", any
\* other exception goes on to the task's generic handler.
MarkChunkFailed(cs, rec) ==
    IF rec.rid /\ rec.idx \in DOMAIN cs
    THEN [cs EXCEPT ![rec.idx].status = "failed"]
    ELSE cs

\* A handler that aborts cleanly for a deleted job only.
AbortsWhenDeleted(e) == e = "notfound"

\* except (JobCancelledError, JobNotFoundError): return status "cancelled"
CleanAbort(e) == e \in {"cancelled", "notfound"}

ChunkFail(w) ==
    /\ wk[w].pc = "chunkfail"
    /\ chunks' = MarkChunkFailed(chunks, wk[w])
    /\ wk' = [wk EXCEPT ![w] =
                IF CleanAbort(@.err)
                THEN IdleWorker("cancelled")
                ELSE [@ EXCEPT !.pc = "jobfail"]]
    /\ UNCHANGED <<life, job, blobs, audio, queue, up, del, delMid,
                 raised, hook, calls>>

\* job_repo.update_status(job_id, FAILED, error_message, error_code)
MarkJobFailed(j) ==
    Touch([j EXCEPT !.status = "failed", !.error_message = TRUE,
                    !.error_code = TRUE])

\* if task.request.retries < task.max_retries: raise task.retry(...)
\* (never for a non-retryable ProviderError)
TaskRetries(rec) == rec.err # "fatal" /\ rec.tries < task_max_retries

\* The "failed" return value carries "retryable": False for a non-retryable
\* ProviderError.
FailValue(rec) == IF rec.err = "fatal" THEN "failed_nonretryable" ELSE "failed"

\* `except Exception` of the task: mark the job FAILED (a failure of that
\* update, as on a deleted job, is swallowed), then return or task.retry.
JobFail(w) ==
    /\ wk[w].pc = "jobfail"
    /\ job' = IF JobExists THEN MarkJobFailed(job) ELSE job
    /\ IF TaskRetries(wk[w])
       THEN /\ queue' = Enqueue(queue, wk[w].tries + 1)
            /\ wk' = [wk EXCEPT ![w] = IdleWorker("retry")]
       ELSE /\ queue' = queue
            /\ wk' = [wk EXCEPT ![w] = IdleWorker(FailValue(wk[w]))]
    /\ UNCHANGED <<life, chunks, blobs, audio, up, del, delMid, raised, hook, calls>>

\* A set_result that stores the result but leaves the status column alone.
StoresWithoutStatus(cs, i, r) ==
    IF i \in DOMAIN cs THEN [cs EXCEPT ![i].result = r] ELSE cs

\* ChunkRepository.set_result
set_chunk_result(cs, i, r) ==
    IF i \in DOMAIN cs
    THEN [cs EXCEPT ![i] = [status |-> "completed", result |-> r]]
    ELSE cs

\* JobRepository.increment_completed_chunks
increment_completed_chunks(j) ==
    Touch([j EXCEPT !.completed_chunks = @ + 1])

\* DB Operation 4 (only if chunk_record_id): set_result on the chunk row and
\* increment_completed_chunks in one transaction; on a deleted job
\* get_by_id raises JobNotFoundError inside the chunk's try block.  Then the
\* result is appended to the results list.
Persist(w) ==
    /\ wk[w].pc = "persist"
    /\ IF ~wk[w].rid
       THEN /\ wk' = [wk EXCEPT ![w] = Advance(@, @.cur)]
            /\ UNCHANGED <<job, chunks>>
       ELSE IF ~JobExists
       THEN /\ wk' = [wk EXCEPT ![w].pc = "chunkfail", ![w].err = "notfound"]
            /\ UNCHANGED <<job, chunks>>
       ELSE /\ job.completed_chunks < MaxCompleted
            /\ chunks' = set_chunk_result(chunks, wk[w].idx, wk[w].cur)
            /\ job' = increment_completed_chunks(job)
            /\ wk' = [wk EXCEPT ![w] = Advance(@, @.cur)]
    /\ UNCHANGED <<life, blobs, audio, queue, up, del, delMid, raised, hook, calls>>

\* merger.merge_transcripts, then storage_service.upload_json(result_key, ...)
Upload(w) ==
    /\ wk[w].pc = "upload"
    /\ blobs' = blobs \cup {"result"}
    /\ wk' = [wk EXCEPT ![w].pc = "setresult"]
    /\ UNCHANGED <<life, job, chunks, audio, queue, up, del, delMid,
                 raised, hook, calls>>

\* JobRepository.set_result: status COMPLETED, unconditionally.
set_result(j) ==
    Touch([j EXCEPT !.status = "completed", !.s3_result_key = TRUE])

\* DB Operation 5, then send_webhook.delay if the job has a webhook URL; on a
\* deleted job get_by_id raises JobNotFoundError.
SetResult(w) ==
    /\ wk[w].pc = "setresult"
    /\ IF JobExists
       THEN /\ job' = set_result(job)
            /\ hook' = IF job.webhook_url
                       THEN [hook EXCEPT !.queue = Enqueue(@, 0)]
                       ELSE hook
            /\ wk' = [wk EXCEPT ![w] = IdleWorker("completed")]
       ELSE /\ UNCHANGED <<job, hook>>
            /\ wk' = [wk EXCEPT ![w] = IdleWorker("cancelled")]
    /\ UNCHANGED <<life, chunks, blobs, audio, queue, up, del, delMid,
                 raised, calls>>

\* The worker process dies mid-task; scratch state is lost.  The broker
\* either redelivers the message (at-least-once) or has already dropped it.
Crash(w) ==
    /\ wk[w].pc # "idle"
    /\ \E redeliver \in BOOLEAN :
        queue' = IF redeliver THEN Enqueue(queue, wk[w].tries) ELSE queue
    /\ wk' = [wk EXCEPT ![w] = IdleWorker("none")]
    /\ UNCHANGED <<life, job, chunks, blobs, audio, up, del, delMid,
                 raised, hook, calls>>

WorkerStep(w) ==
    \/ Deliver(w)
    \/ Fetch(w)
    \/ CreateChunks(w)
    \/ CheckChunk(w)
    \/ CallOk(w)
    \/ CallError(w)
    \/ OnRetry(w)
    \/ ChunkFail(w)
    \/ JobFail(w)
    \/ Persist(w)
    \/ Upload(w)
    \/ SetResult(w)
    \/ Crash(w)

\* ---------------------------------------------------------------- janitor
\* The retention period passes since the job's created_at (which no update
\* changes): get_expired_jobs' cutoff moves past it.
Expire ==
    /\ JobExists
    /\ ~job.expired
    /\ job' = [job EXCEPT !.expired = TRUE]
    /\ UNCHANGED <<life, chunks, blobs, audio, queue, up, del, wk, delMid,
                 raised, hook, calls>>

\* cleanup_expired_jobs, run once per day by the beat schedule.  Its first
\* statement reads settings.job_retention_days; Settings (config.py) declares
\* no such field, so the read raises AttributeError and the task ends before
\* it queries or deletes anything.
CleanupExpired ==
    /\ raised' = raised \cup {<<"cleanup_expired_jobs", "AttributeError">>}
    /\ UNCHANGED <<life, job, chunks, blobs, audio, queue, up, del, wk, delMid,
                 hook, calls>>

\* --------------------------------------------------------------- chunker
\* AudioChunker.calculate_chunk_boundaries(duration, silence_points), with
\* self.max_chunk_duration and self.overlap_duration; times in whole seconds.
\* One step per iteration of its while loop.  The list it builds has no
\* bound in the code; the model records its first MaxBoundaries entries and
\* keeps in `more` whether entries were appended beyond them, and if so
\* whether their number is odd (1) or even (2); no call that returns within
\* the bounds gets that far.
MaxBoundaries == MaxDuration + 1

\* detect_silence_points: silence_end timestamps in the order FFmpeg logs
\* them, i.e. ascending.
SilenceLists(duration) ==
    UNION {{p \in [1..n -> 0..duration] :
                \A i \in 1..n : \A j \in 1..n : i < j => p[i] < p[j]} :
           n \in 0..MaxSilence}

ChunkerCalls ==
    {[pc |-> "call", duration |-> d, max_chunk_duration |-> m,
      overlap_duration |-> o, silence_points |-> p,
      current_start |-> 0, boundaries |-> <<>>, more |-> 0] :
        d \in 1..MaxDuration, m \in 1..MaxChunkDuration,
        o \in 0..(MaxChunkDuration - 1), p \in SilenceLists(MaxDuration)}

Min(a, b) == IF a <= b THEN a ELSE b
Max(a, b) == IF a >= b THEN a ELSE b
Abs(a) == IF a >= 0 THEN a ELSE -a

\* target_end = min(current_start + self.max_chunk_duration, duration)
target_end(c) == Min(c.current_start + c.max_chunk_duration, c.duration)

\* search_start <= sp <= min(search_end, duration), where
\* search_start = target_end * 0.8 and search_end = target_end * 1.1
InWindow(sp, c) ==
    /\ 8 * target_end(c) <= 10 * sp
    /\ 10 * sp <= 11 * target_end(c)
    /\ sp <= c.duration

candidates(c) == SelectSeq(c.silence_points, LAMBDA sp : InWindow(sp, c))

\* min(candidates, key=lambda x: abs(x - target_end)): the first of the
\* closest ones.
Closest(cands, t) ==
    cands[CHOOSE i \in 1..Len(cands) :
            \A j \in 1..Len(cands) :
                /\ Abs(cands[i] - t) <= Abs(cands[j] - t)
                /\ j < i => Abs(cands[j] - t) > Abs(cands[i] - t)]

split_point(c) ==
    IF candidates(c) # <<>>
    THEN Closest(candidates(c), target_end(c))
    ELSE target_end(c)

\* The next chunk starts O before the split point, not at it.
StartsAtSplit(c) == split_point(c)

\* current_start = max(0, split_point - self.overlap_duration)
next_start(c) == Max(0, split_point(c) - c.overlap_duration)

\* boundaries.append(...)
Appended(c, b) ==
    IF Len(c.boundaries) < MaxBoundaries
    THEN [c EXCEPT !.boundaries = Append(@, b)]
    ELSE [c EXCEPT !.more = IF @ = 1 THEN 2 ELSE 1]

\* if duration <= self.max_chunk_duration: return [(0.0, duration)]
CalcSingle ==
    /\ cb.pc = "call"
    /\ cb.duration <= cb.max_chunk_duration
    /\ cb' = [Appended(cb, <<0, cb.duration>>) EXCEPT !.pc = "return"]
    /\ UNCHANGED <<life, job, chunks, blobs, audio, queue, up, del, wk, delMid,
                 raised, hook, mt, cg, rl, rt, cv>>

\* One iteration of `while current_start < duration`.
CalcIterate ==
    /\ \/ cb.pc = "call" /\ cb.duration > cb.max_chunk_duration
       \/ cb.pc = "loop"
    /\ cb.current_start < cb.duration
    /\ cb' = IF target_end(cb) >= cb.duration
             THEN [Appended(cb, <<cb.current_start, cb.duration>>)
                     EXCEPT !.pc = "return"]
             ELSE [Appended(cb, <<cb.current_start, split_point(cb)>>)
                     EXCEPT !.pc = "loop",
                            !.current_start = next_start(cb)]
    /\ UNCHANGED <<life, job, chunks, blobs, audio, queue, up, del, wk, delMid,
                 raised, hook, mt, cg, rl, rt, cv>>

\* The loop condition fails: return boundaries.
CalcExit ==
    /\ cb.pc = "loop"
    /\ cb.current_start >= cb.duration
    /\ cb' = [cb EXCEPT !.pc = "return"]
    /\ UNCHANGED <<life, job, chunks, blobs, audio, queue, up, del, wk, delMid,
                 raised, hook, mt, cg, rl, rt, cv>>

\* ---------------------------------------------------------------- merger
\* Python's None.
None == "None"

\* dict.get(key, default)
Get(d, key, default) == IF key \in DOMAIN d THEN d[key] ELSE default

\* x or default
Or(x, default) == IF x = None \/ x = "" THEN default ELSE x

\* TranscriptionSegment values of a provider response for a chunk of
\* ChunkSeconds; a provider may give no speaker_id.
Segments ==
    [text : {"abcd", "abcde", "b"},
     start_time : {0, 1}, end_time : {1, ChunkSeconds},
     speaker_id : {None, "A"}]

\* TranscriptionResponse values: the provider's own full text and its
\* segments, in the order the provider lists them.
Responses(n) ==
    [text : {"abcd", "b"},
     segments : {l \in [1..n -> Segments] :
                    \A i \in 1..n : l[i].start_time < l[i].end_time}]

\* ChunkInfo of the index-th chunk: chunks of ChunkSeconds, each starting
\* one second after the one before (overlap ChunkSeconds - 1).
ChunkInfoOf(index) ==
    [index |-> index, start_time |-> index, end_time |-> index + ChunkSeconds,
     duration |-> ChunkSeconds]

\* The dict _process_single_chunk makes of a provider response.
process_single_chunk(chunk, result) ==
    [chunk_index |-> chunk.index,
     chunk_start_time |-> chunk.start_time,
     chunk_end_time |-> chunk.end_time,
     chunk_full_text |-> result.text,
     segments |-> result.segments]

\* " ".join(texts)
RECURSIVE Join(_)
Join(texts) ==
    IF texts = <<>> THEN ""
    ELSE IF Len(texts) = 1 THEN texts[1]
    ELSE texts[1] \o " " \o Join(Tail(texts))

\* The raw speaker ids of the segments in order of first appearance: the
\* keys of speaker_map in insertion order.
RECURSIVE speaker_map(_)
speaker_map(ids) ==
    IF ids = <<>> THEN <<>>
    ELSE LET before == speaker_map(SubSeq(ids, 1, Len(ids) - 1))
             id == ids[Len(ids)]
         IN  IF \E k \in 1..Len(before) : before[k] = id
             THEN before ELSE Append(before, id)

\* Every raw speaker id gets the label of the first raw id.
FirstLabel(map, id) == "SPEAKER_00"

\* speaker_map[id]: f"SPEAKER_{len(speaker_map):02d}" at the time id was
\* added (fewer than ten speakers).
Label(map, id) ==
    "SPEAKER_0" \o ToString((CHOOSE k \in 1..Len(map) : map[k] = id) - 1)

\* TranscriptMerger._format_single_chunk
format_single_chunk(result) ==
    LET segments == Get(result, "segments", <<>>)
        text == Get(result, "text", "")
        full_text ==
            IF text = "" /\ segments # <<>>
            THEN Join([i \in 1..Len(segments) |-> Get(segments[i], "text", "")])
            ELSE text
        raw == [i \in 1..Len(segments) |->
                    Or(Get(segments[i], "speaker_id", None), "SPEAKER_00")]
    IN  [full_text |-> full_text,
         segments |-> [i \in 1..Len(segments) |->
             [speaker_id |-> Label(speaker_map(raw), raw[i]),
              text |-> Get(segments[i], "text", ""),
              start_time |-> Get(segments[i], "start_time", 0),
              end_time |-> Get(segments[i], "end_time", 0)]],
         chunks_merged |-> 1]

\* TranscriptMerger._extract_segments: timestamps moved by the chunk's
\* start (the texts of Segments have no surrounding blanks to strip).
extract_segments(result, chunk_info) ==
    LET segments == Get(result, "segments", <<>>)
    IN  [i \in 1..Len(segments) |->
            [speaker_id |-> Or(Get(segments[i], "speaker_id", None), "SPEAKER_00"),
             text |-> Get(segments[i], "text", ""),
             start_time |-> Get(segments[i], "start_time", 0)
                                + chunk_info.start_time,
             end_time |-> Get(segments[i], "end_time", 0)
                                + chunk_info.start_time]]

\* all_segments of the first n chunks, in chunk order.
RECURSIVE all_segments(_, _, _)
all_segments(chunk_results, chunk_infos, n) ==
    IF n = 0 THEN <<>>
    ELSE all_segments(chunk_results, chunk_infos, n - 1)
            \o extract_segments(chunk_results[n], chunk_infos[n])

\* all_segments.sort(key=lambda s: s.start_time): a stable sort.
RECURSIVE SortByStart(_)
SortByStart(segs) ==
    IF Len(segs) <= 1 THEN segs
    ELSE LET sorted == SortByStart(SubSeq(segs, 1, Len(segs) - 1))
             seg == segs[Len(segs)]
             k == Cardinality({i \in 1..Len(sorted) :
                                 sorted[i].start_time <= seg.start_time})
         IN  SubSeq(sorted, 1, k) \o <<seg>>
                 \o SubSeq(sorted, k + 1, Len(sorted))

\* TranscriptMerger._texts_similar with the configured threshold 0.8, on
\* the texts of Segments: equal texts are similar; "abcd" is a substring of
\* "abcde" with 4/5 >= 0.8 of its length; "b" shares no word and no
\* trigram with the others.
texts_similar(text1, text2) ==
    /\ text1 # "" /\ text2 # ""
    /\ \/ text1 = text2
       \/ {text1, text2} = {"abcd", "abcde"}

\* A loop body that truncates the previous segment whenever the texts
\* differ, also when both segments start together.
TruncatesAlways(result, seg) ==
    LET prev == result[Len(result)]
    IN  IF seg.start_time < prev.end_time - overlap_threshold
        THEN IF texts_similar(prev.text, seg.text)
             THEN IF Len(seg.text) > Len(prev.text)
                  THEN [result EXCEPT ![Len(result)] = seg]
                  ELSE result
             ELSE Append([result EXCEPT ![Len(result)].end_time =
                                            seg.start_time],
                         seg)
        ELSE Append(result, seg)

\* The body of the loop of _deduplicate_overlaps for one segment.
DedupStep(result, seg) ==
    LET prev == result[Len(result)]
    IN  IF seg.start_time < prev.end_time - overlap_threshold
        THEN IF texts_similar(prev.text, seg.text)
             THEN IF Len(seg.text) > Len(prev.text)
                  THEN [result EXCEPT ![Len(result)] = seg]
                  ELSE result
             ELSE Append(IF seg.start_time > prev.start_time
                         THEN [result EXCEPT ![Len(result)].end_time =
                                                  seg.start_time]
                         ELSE result,
                         seg)
        ELSE Append(result, seg)

\* TranscriptMerger._deduplicate_overlaps
RECURSIVE deduplicate_overlaps(_)
deduplicate_overlaps(segments) ==
    IF Len(segments) <= 1 THEN segments
    ELSE DedupStep(deduplicate_overlaps(SubSeq(segments, 1, Len(segments) - 1)),
                   segments[Len(segments)])

\* TranscriptMerger._normalize_speakers
normalize_speakers(segments) ==
    LET map == speaker_map([i \in 1..Len(segments) |-> segments[i].speaker_id])
    IN  [i \in 1..Len(segments) |->
            [segments[i] EXCEPT !.speaker_id = Label(map, @)]]

\* TranscriptMerger._build_full_text (no text of Segments ends with a
\* punctuation mark): a blank after every text, a line break before a new
\* speaker's turn, and the whole stripped.
RECURSIVE build_full_text(_)
build_full_text(segments) ==
    IF segments = <<>> THEN ""
    ELSE IF Len(segments) = 1 THEN segments[1].text
    ELSE LET n == Len(segments)
         IN  build_full_text(SubSeq(segments, 1, n - 1)) \o " "
                 \o (IF segments[n].speaker_id # segments[n - 1].speaker_id
                     THEN "\n" ELSE "")
                 \o segments[n].text

\* deduped_segments of merge_transcripts, for two or more chunks.
deduped_segments(chunk_results, chunk_infos) ==
    deduplicate_overlaps(SortByStart(
        all_segments(chunk_results, chunk_infos,
                     Min(Len(chunk_results), Len(chunk_infos)))))

\* The dict TranscriptMerger.merge_transcripts returns, given its
\* deduped_segments.
merge_transcripts(chunk_results, deduped) ==
    IF chunk_results = <<>>
    THEN [full_text |-> "", segments |-> <<>>, chunks_merged |-> 0]
    ELSE IF Len(chunk_results) = 1
    THEN format_single_chunk(chunk_results[1])
    ELSE [full_text |-> build_full_text(normalize_speakers(deduped)),
          segments |-> normalize_speakers(deduped),
          chunks_merged |-> Len(chunk_results)]

\* The end of the pipeline for a job of one or two chunks: the provider
\* responses of its chunks, the results list built of them, the merge.
MergeCall(responses) ==
    [pc |-> "call",
     chunks |-> [i \in 1..Len(responses) |-> ChunkInfoOf(i - 1)],
     responses |-> responses, results |-> <<>>,
     deduped_segments |-> <<>>, final_transcript |-> None]

\* The responses of a job's chunks: one or two chunks, at most MaxSegments
\* segments in all.
IsMergeCall(m) ==
    \E n1 \in 0..MaxSegments : \E r1 \in Responses(n1) :
        \/ m = MergeCall(<<r1>>)
        \/ \E n2 \in 0..(MaxSegments - n1) : \E r2 \in Responses(n2) :
               m = MergeCall(<<r1, r2>>)

\* results.append(result) for every chunk, result = _process_single_chunk(...)
ProcessChunks ==
    /\ mt.pc = "call"
    /\ mt' = [mt EXCEPT !.pc = "merge",
                        !.results = [i \in 1..Len(mt.chunks) |->
                            process_single_chunk(mt.chunks[i], mt.responses[i])]]
    /\ UNCHANGED <<life, job, chunks, blobs, audio, queue, up, del, wk, delMid,
                 raised, hook, cb, cg, rl, rt, cv>>

\* final_transcript = merger.merge_transcripts(results, chunks)
Merge ==
    /\ mt.pc = "merge"
    /\ LET deduped == IF Len(mt.results) > 1
                      THEN deduped_segments(mt.results, mt.chunks)
                      ELSE <<>>
       IN  mt' = [mt EXCEPT !.pc = "return",
                            !.deduped_segments = deduped,
                            !.final_transcript =
                                merge_transcripts(mt.results, deduped)]
    /\ UNCHANGED <<life, job, chunks, blobs, audio, queue, up, del, wk, delMid,
                 raised, hook, cb, cg, rl, rt, cv>>

\* ---------------------------------------------------------- coverage gap
\* The clamped end of every segment counts, wherever the segment starts.
ClampsEveryEnd(segments, duration) ==
    IF segments = <<>> THEN 0 ELSE duration

\* last_valid_end after the loop over the segments: the largest
\* min(seg_end, chunk.duration) of the segments with
\* seg_start <= chunk.duration, from 0.0.
RECURSIVE last_valid_end(_, _)
last_valid_end(segments, duration) ==
    IF segments = <<>> THEN 0
    ELSE LET n == Len(segments)
             before == last_valid_end(SubSeq(segments, 1, n - 1), duration)
         IN  IF Get(segments[n], "start_time", 0) <= duration
             THEN Max(before, Min(Get(segments[n], "end_time", 0), duration))
             ELSE before

\* _check_coverage_gap(result, chunk): the float it returns as a sequence
\* of one element, None as the empty sequence.
check_coverage_gap(result, chunk) ==
    LET segments == Get(result, "segments", <<>>)
        first_start == Get(segments[1], "start_time", 0)
        last_end == Get(segments[Len(segments)], "end_time", 0)
        remaining == IF chunk.duration - last_end < 0
                     THEN chunk.duration - last_valid_end(segments, chunk.duration)
                     ELSE chunk.duration - last_end
        gap == Max(first_start, remaining)
    IN  IF segments = <<>> THEN <<chunk.duration>>
        ELSE IF gap > 0 THEN <<gap>> ELSE <<>>

\* A provider result for a chunk of up to ChunkSeconds + 2 seconds, whose
\* timestamps may run past the chunk's end.
IsGapCall(c) ==
    \E d \in 1..(ChunkSeconds + 2) : \E n \in 0..MaxSegments :
        \E segments \in [1..n -> [start_time : 0..(d + 2), end_time : 0..(d + 2)]] :
            /\ \A i \in 1..n : segments[i].start_time <= segments[i].end_time
            /\ c = [pc |-> "call", result |-> [segments |-> segments],
                    chunk |-> [duration |-> d], coverage_gap |-> <<>>]

\* coverage_gap = _check_coverage_gap(result, chunk)
CheckCoverageGap ==
    /\ cg.pc = "call"
    /\ cg' = [cg EXCEPT !.pc = "return",
                        !.coverage_gap = check_coverage_gap(cg.result, cg.chunk)]
    /\ UNCHANGED <<life, job, chunks, blobs, audio, queue, up, del, wk, delMid,
                 raised, hook, cb, mt, rl, rt, cv>>

\* ---------------------------------------------------------- rate limiter
\* Python floats are followed as exact fractions n/d in lowest terms, so
\* that 0.5, 1.1 and 0.1 are what they say.
Frac(n, d) ==
    LET RECURSIVE gcd(_, _)
        gcd(a, b) == IF b = 0 THEN a ELSE gcd(b, a % b)
        g == gcd(IF n < 0 THEN -n ELSE n, d)
    IN  [n |-> n \div g, d |-> d \div g]

\* x + y
Plus(x, y) ==
    LET g == Frac(x.d, y.d)
    IN  Frac(x.n * g.d + y.n * g.n, x.d * g.d)

\* x * y
Times(x, y) ==
    LET a == Frac(x.n, y.d)
        b == Frac(y.n, x.d)
    IN  [n |-> a.n * b.n, d |-> a.d * b.d]

\* x <= y
Leq(x, y) == x.n * y.d <= y.n * x.d

\* RateLimitState.get_available_tokens(now)
get_available_tokens(bucket, now) ==
    LET elapsed == Frac(now - bucket.last_update, 1)
        new_tokens == Times(Times(elapsed, bucket.refill_rate),
                            bucket.adaptive_factor)
        refilled == Plus(bucket.tokens, new_tokens)
    IN  IF Leq(bucket.max_tokens, refilled) THEN bucket.max_tokens
        ELSE refilled

\* RateLimiter.configure_provider(provider, requests_per_minute, burst_size):
\* the RateLimitState stored for the provider; burst_size is <<>> for None.
configure_provider(requests_per_minute, burst_size, now) ==
    LET burst == IF burst_size = <<>> THEN Max(1, requests_per_minute \div 6)
                 ELSE burst_size[1]
    IN  [tokens |-> Frac(burst, 1), last_update |-> now,
         max_tokens |-> Frac(burst, 1),
         refill_rate |-> Frac(requests_per_minute, 60),
         adaptive_factor |-> Frac(1, 1)]

\* A call of the rate limiter that is left out.
LeftOut(t, op, retry_after) == rl

\* The limiter once coroutine t has called rate_limiter.<op>(provider) or
\* rate_limiter.report_rate_limit(provider, retry_after): lock = await
\* self._get_lock(provider) comes first.
Invoke(t, op, retry_after) ==
    [rl EXCEPT !.task[t] = [pc |-> "get_lock", op |-> op,
                            retry_after |-> retry_after, lock |-> 0,
                            until |-> <<>>, ret |-> <<>>]]

\* A coroutine calls one of the given operations; at most cap reports are
\* followed.
Enter(t, ops, cap) ==
    /\ rl.task[t].pc = "idle"
    /\ \E op \in ops : \E retry_after \in {<<>>, <<0>>, <<1>>} :
        /\ op = "report_rate_limit" \/ retry_after = <<>>
        /\ op \in {"report_rate_limit", "report_success"} => rl.reports < cap
        /\ rl' = [Invoke(t, op, retry_after) EXCEPT
                    !.reports = IF op \in {"report_rate_limit", "report_success"}
                                THEN @ + 1 ELSE @]
    /\ UNCHANGED <<life, job, chunks, blobs, audio, queue, up, del, wk, delMid,
                 raised, hook, cb, mt, cg, rt, cv>>

\* _get_lock without the second look at _locks under the global lock.
CreatesAnyway(lock) == TRUE

\* _get_lock, inside `async with self._global_lock`: if provider not in
\* self._locks
StillMissing(lock) == lock = 0

\* _get_lock: the provider's lock if _locks has one, else on to the global
\* lock.
GetLock(t) ==
    /\ rl.task[t].pc = "get_lock"
    /\ rl' = [rl EXCEPT !.task[t] =
                IF rl.lock # 0
                THEN [@ EXCEPT !.pc = "acquire_lock", !.lock = rl.lock]
                ELSE [@ EXCEPT !.pc = "global_lock"]]
    /\ UNCHANGED <<life, job, chunks, blobs, audio, queue, up, del, wk, delMid,
                 raised, hook, cb, mt, cg, rt, cv>>

\* _get_lock under the global lock: create the provider's lock if it is
\* still missing, and return self._locks[provider].
CreateLock(t) ==
    /\ rl.task[t].pc = "global_lock"
    /\ LET made == StillMissing(rl.lock)
           lock == IF made THEN rl.created + 1 ELSE rl.lock
       IN  rl' = [rl EXCEPT !.lock = lock,
                            !.created = IF made THEN @ + 1 ELSE @,
                            !.task[t] = [@ EXCEPT !.pc = "acquire_lock",
                                                  !.lock = lock]]
    /\ UNCHANGED <<life, job, chunks, blobs, audio, queue, up, del, wk, delMid,
                 raised, hook, cb, mt, cg, rt, cv>>

\* `async with lock`: the coroutine goes on once nobody holds the lock.
TakeLock(t) ==
    /\ rl.task[t].pc = "acquire_lock"
    /\ rl.task[t].lock \notin rl.held
    /\ rl' = [rl EXCEPT !.held = @ \cup {rl.task[t].lock},
                        !.task[t] = [@ EXCEPT !.pc = "locked"]]
    /\ UNCHANGED <<life, job, chunks, blobs, audio, queue, up, del, wk, delMid,
                 raised, hook, cb, mt, cg, rt, cv>>

\* A report that halves the factor without a floor.
HalvesOnly(adaptive_factor) == Times(adaptive_factor, Frac(1, 2))

\* report_rate_limit: max(0.1, bucket.adaptive_factor * 0.5)
Reduced(adaptive_factor) ==
    LET halved == Times(adaptive_factor, Frac(1, 2))
    IN  IF Leq(halved, Frac(1, 10)) THEN Frac(1, 10) ELSE halved

\* The body of acquire / try_acquire / report_rate_limit / report_success
\* under the provider's lock, up to its return or its asyncio.sleep.
Body(t) ==
    /\ rl.task[t].pc = "locked"
    /\ LET task == rl.task[t]
           one == Frac(1, 1)
           zero == Frac(0, 1)
           release == rl.held \ {task.lock}
           \* the coroutine leaves `async with lock` and returns ret
           Return(ret) == [task EXCEPT !.pc = "idle", !.ret = ret]
           \* the coroutine awaits asyncio.sleep(seconds), the lock held
           SleepFor(seconds) ==
               [task EXCEPT !.pc = "sleep",
                            !.until = <<Plus(Frac(rl.now, 1), seconds)>>]
       IN  IF rl.bucket = <<>>
           THEN rl' = [rl EXCEPT
                         !.held = release,
                         !.task[t] = Return(
                             CASE task.op = "acquire" -> <<zero>>
                               [] task.op = "try_acquire" -> <<TRUE>>
                               [] OTHER -> <<>>)]
           ELSE
           LET bucket == rl.bucket[1]
               available == get_available_tokens(bucket, rl.now)
               consumed == [bucket EXCEPT
                              !.tokens = Plus(available, Frac(-1, 1)),
                              !.last_update = rl.now]
           IN  CASE task.op = "acquire" ->
                      IF Leq(one, available)
                      THEN rl' = [rl EXCEPT !.bucket = <<consumed>>,
                                            !.held = release,
                                            !.task[t] = Return(<<zero>>)]
                      ELSE LET tokens_needed == Plus(one, Times(Frac(-1, 1),
                                                                available))
                               rate == Times(bucket.refill_rate,
                                             bucket.adaptive_factor)
                               wait_time ==
                                   Times(tokens_needed,
                                         [n |-> rate.d, d |-> rate.n])
                           IN  rl' = [rl EXCEPT !.task[t] =
                                        [SleepFor(wait_time)
                                            EXCEPT !.ret = <<wait_time>>]]
                 [] task.op = "try_acquire" ->
                      IF Leq(one, available)
                      THEN rl' = [rl EXCEPT !.bucket = <<consumed>>,
                                            !.held = release,
                                            !.task[t] = Return(<<TRUE>>)]
                      ELSE rl' = [rl EXCEPT !.held = release,
                                            !.task[t] = Return(<<FALSE>>)]
                 [] task.op = "report_rate_limit" ->
                      LET reduced ==
                              [bucket EXCEPT
                                 !.adaptive_factor = Reduced(@),
                                 !.tokens = zero,
                                 !.last_update = rl.now]
                      IN  IF task.retry_after # <<>> /\ task.retry_after[1] > 0
                          THEN rl' = [rl EXCEPT
                                        !.bucket = <<reduced>>,
                                        !.task[t] =
                                            SleepFor(
                                                Frac(task.retry_after[1], 1))]
                          ELSE rl' = [rl EXCEPT !.bucket = <<reduced>>,
                                                !.held = release,
                                                !.task[t] = Return(<<>>)]
                 [] task.op = "report_success" ->
                      LET raised_factor == Times(bucket.adaptive_factor,
                                                 Frac(11, 10))
                          restored ==
                              [bucket EXCEPT
                                 !.adaptive_factor =
                                     IF Leq(one, bucket.adaptive_factor) THEN @
                                     ELSE IF Leq(one, raised_factor) THEN one
                                     ELSE raised_factor]
                      IN  rl' = [rl EXCEPT !.bucket = <<restored>>,
                                           !.held = release,
                                           !.task[t] = Return(<<>>)]
    /\ UNCHANGED <<life, job, chunks, blobs, audio, queue, up, del, wk, delMid,
                 raised, hook, cb, mt, cg, rt, cv>>

\* asyncio.sleep returns once the time has passed (or the clock is at the
\* end of what is followed): acquire empties the bucket and returns the
\* wait, report_rate_limit returns.
Wake(t) ==
    /\ rl.task[t].pc = "sleep"
    /\ Leq(rl.task[t].until[1], Frac(rl.now, 1)) \/ rl.now = MaxClock
    /\ LET task == rl.task[t]
       IN  rl' = [rl EXCEPT
                    !.bucket = IF task.op = "acquire" /\ @ # <<>>
                               THEN <<[@[1] EXCEPT !.tokens = Frac(0, 1),
                                                   !.last_update = rl.now]>>
                               ELSE @,
                    !.held = @ \ {task.lock},
                    !.task[t] = [task EXCEPT !.pc = "idle", !.until = <<>>]]
    /\ UNCHANGED <<life, job, chunks, blobs, audio, queue, up, del, wk, delMid,
                 raised, hook, cb, mt, cg, rt, cv>>

\* A second goes by on time.monotonic().
Tick ==
    /\ rl.now < MaxClock
    /\ rl' = [rl EXCEPT !.now = @ + 1]
    /\ UNCHANGED <<life, job, chunks, blobs, audio, queue, up, del, wk, delMid,
                 raised, hook, cb, mt, cg, rt, cv>>

\* The steps of a coroutine inside a rate limiter operation.
LimiterStep(t) ==
    \/ GetLock(t)
    \/ CreateLock(t)
    \/ TakeLock(t)
    \/ Body(t)
    \/ Wake(t)

\* ---------------------------------------------------------- retry engine
\* retry_with_backoff runs in coroutine "t1": `await rate_limiter.<op>(...)`
\* starts the operation there and the engine goes on once it has returned.
\* The trace lists what the call has done so far, with the attempt number;
\* a call of func is listed as "result" or as the type of the error raised.

\* _process_transcription_job begins: setup_default_limits() configures the
\* known providers again (one of them is followed).  The job has up to
\* MaxChunks chunks, counted in chunk as their calls are made.
StartJob ==
    /\ rt.pc \in {"none", "job", "returned", "raised"}
    /\ rl.task["t1"].pc = "idle"
    /\ rl' = [rl EXCEPT !.bucket =
                <<configure_provider(gemini_rpm_limit, <<>>, rl.now)>>]
    /\ rt' = [pc |-> "job", chunk |-> 0]
    /\ UNCHANGED <<life, job, chunks, blobs, audio, queue, up, del, wk, delMid,
                 raised, hook, cb, mt, cg, cv>>

\* _process_single_chunk: result = await retry_with_backoff(do_transcribe,
\* config=RetryConfig.from_settings(), provider=..., on_retry=...); a
\* provider of <<>> is None, on_retry FALSE is None.
BeginRetry ==
    /\ rt.pc \in {"job", "returned"}
    /\ rt.chunk < MaxChunks
    /\ \E provider \in {<<>>, <<"gemini">>} : \E on_retry \in BOOLEAN :
        rt' = [pc |-> "attempt", chunk |-> rt.chunk + 1,
               provider |-> provider, on_retry |-> on_retry,
               attempt |-> 0, last_exception |-> <<>>, trace |-> <<>>,
               result |-> <<>>]
    /\ UNCHANGED <<life, job, chunks, blobs, audio, queue, up, del, wk, delMid,
                 raised, hook, cb, mt, cg, rl, cv>>

\* for attempt in range(config.max_retries + 1): if provider: await
\* rate_limiter.acquire(provider)
Attempt ==
    /\ rt.pc = "attempt"
    /\ IF rt.provider # <<>>
       THEN /\ rt' = [rt EXCEPT !.pc = "call",
                               !.trace = Append(@, <<"acquire", rt.attempt>>)]
            /\ rl' = Invoke("t1", "acquire", <<>>)
       ELSE /\ rt' = [rt EXCEPT !.pc = "call"]
            /\ rl' = rl
    /\ UNCHANGED <<life, job, chunks, blobs, audio, queue, up, del, wk, delMid,
                 raised, hook, cb, mt, cg, cv>>

\* result = await func(*args, **kwargs), once acquire has returned: on a
\* result report_success is awaited.  func may raise RateLimitError (a
\* retryable ProviderError with an optional retry_after), for which
\* report_rate_limit is awaited, ProviderError, or any other exception,
\* which has no retryable attribute; the message of an error is numbered
\* after the attempt.
CallFn ==
    /\ rt.pc = "call"
    /\ rl.task["t1"].pc = "idle"
    /\ \/ /\ rt' = [rt EXCEPT
                      !.pc = "return", !.result = <<rt.attempt>>,
                      !.trace = IF rt.provider # <<>>
                                THEN @ \o <<<<"result", rt.attempt>>,
                                            <<"report_success", rt.attempt>>>>
                                ELSE Append(@, <<"result", rt.attempt>>)]
          /\ rl' = IF rt.provider # <<>>
                   THEN Invoke("t1", "report_success", <<>>) ELSE rl
       \/ \E e \in
                [type : {"RateLimitError"}, message : {rt.attempt},
                 retryable : {<<TRUE>>}, retry_after : {<<>>, <<0>>, <<1>>}]
                \cup [type : {"ProviderError"}, message : {rt.attempt},
                      retryable : {<<TRUE>>, <<FALSE>>}, retry_after : {<<>>}]
                \cup [type : {"Exception"}, message : {rt.attempt},
                      retryable : {<<>>}, retry_after : {<<>>}] :
            LET reports == e.type = "RateLimitError" /\ rt.provider # <<>>
            IN  /\ rt' = [rt EXCEPT
                            !.pc = "except", !.last_exception = <<e>>,
                            !.trace = IF reports
                                      THEN @ \o <<<<e.type, rt.attempt>>,
                                                  <<"report_rate_limit",
                                                    rt.attempt>>>>
                                      ELSE Append(@, <<e.type, rt.attempt>>)]
                /\ rl' = IF reports
                         THEN Invoke("t1", "report_rate_limit", e.retry_after)
                         ELSE rl
    /\ UNCHANGED <<life, job, chunks, blobs, audio, queue, up, del, wk, delMid,
                 raised, hook, cb, mt, cg, cv>>

\* return result, once report_success has returned.
ReturnResult ==
    /\ rt.pc = "return"
    /\ rl.task["t1"].pc = "idle"
    /\ rt' = [rt EXCEPT !.pc = "returned"]
    /\ UNCHANGED <<life, job, chunks, blobs, audio, queue, up, del, wk, delMid,
                 raised, hook, cb, mt, cg, rl, cv>>

\* The rest of an except block, once report_rate_limit has returned: a
\* non-retryable ProviderError and an error of the last attempt are
\* re-raised; otherwise the delay is computed and on_retry, if given, is
\* awaited: it returns, or raises JobCancelledError, which leaves the call.
Except ==
    /\ rt.pc = "except"
    /\ rl.task["t1"].pc = "idle"
    /\ LET e == rt.last_exception[1]
       IN  IF e.retryable = <<FALSE>> \/ rt.attempt >= max_retries
           THEN rt' = [rt EXCEPT !.pc = "raised", !.result = <<e>>]
           ELSE IF rt.on_retry
           THEN \/ rt' = [rt EXCEPT
                            !.pc = "sleep",
                            !.trace = Append(@, <<"on_retry", rt.attempt>>)]
                \/ rt' = [rt EXCEPT
                            !.trace = Append(@, <<"on_retry", rt.attempt>>),
                            !.pc = "raised",
                            !.result = <<[type |-> "JobCancelledError",
                                          message |-> rt.attempt,
                                          retryable |-> <<>>,
                                          retry_after |-> <<>>]>>]
           ELSE rt' = [rt EXCEPT !.pc = "sleep"]
    /\ UNCHANGED <<life, job, chunks, blobs, audio, queue, up, del, wk, delMid,
                 raised, hook, cb, mt, cg, rl, cv>>

\* await asyncio.sleep(delay): the delay is at least base_delay or
\* retry_after, a second of the clock that is followed; then the next
\* attempt.
Sleep ==
    /\ rt.pc = "sleep"
    /\ rt' = [rt EXCEPT !.pc = "attempt", !.attempt = @ + 1,
                        !.trace = Append(@, <<"sleep", rt.attempt>>)]
    /\ rl' = [rl EXCEPT !.now = Min(@ + 1, MaxClock)]
    /\ UNCHANGED <<life, job, chunks, blobs, audio, queue, up, del, wk, delMid,
                 raised, hook, cb, mt, cg, cv>>

\* ------------------------------------------------------- coverage retries
\* What a provider may return for a chunk: no segment, or one segment that
\* starts up to MaxGap seconds late or ends up to MaxGap seconds early.
CoverageResults(chunk) ==
    {[segments |-> <<>>]}
    \cup {[segments |-> <<[start_time |-> lead,
                           end_time |-> chunk.duration - trail]>>] :
            lead \in 0..MaxGap, trail \in {0}}
    \cup {[segments |-> <<[start_time |-> lead,
                           end_time |-> chunk.duration - trail]>>] :
            lead \in {0}, trail \in 0..MaxGap}

\* coverage_gap and coverage_gap > gap_threshold, for gap_threshold =
\* max(5.0, chunk.duration * 0.2); a gap of <<>> is None.
ExceedsThreshold(coverage_gap, chunk) ==
    /\ coverage_gap # <<>>
    /\ coverage_gap[1] # 0
    /\ 5 * coverage_gap[1] > Max(25, chunk.duration)

\* A retransmission that also replaces the kept result on a tie.
ImprovesOrTies(retry_gap, coverage_gap) ==
    retry_gap = <<>> \/ retry_gap[1] <= coverage_gap[1]

\* retry_gap is None or retry_gap < coverage_gap
Improves(retry_gap, coverage_gap) ==
    retry_gap = <<>> \/ retry_gap[1] < coverage_gap[1]

\* result = await _process_single_chunk(...) and the coverage check of it;
\* then, in `for retry_num in range(max_coverage_retries)`, retry_result =
\* await _process_single_chunk(...), kept if its gap is smaller, with a
\* break once the gap is resolved.  A call that raises fails the chunk.
Transmit ==
    /\ cv.pc \in {"first", "retry"}
    /\ \/ \E r \in CoverageResults(cv.chunk) :
            LET gap == check_coverage_gap(r, cv.chunk)
                got == [cv EXCEPT !.obtained = Append(@, r)]
            IN  IF cv.pc = "first"
                THEN cv' = [got EXCEPT
                              !.result = <<r>>, !.coverage_gap = gap,
                              !.pc = IF ExceedsThreshold(gap, cv.chunk)
                                     THEN "retry" ELSE "store"]
                ELSE LET better == Improves(gap, cv.coverage_gap)
                         resolved == better /\ (gap = <<>>
                                        \/ ~ExceedsThreshold(gap, cv.chunk))
                         last == cv.retry_num + 1 >= max_coverage_retries
                     IN  cv' = [got EXCEPT
                                  !.result = IF better THEN <<r>> ELSE @,
                                  !.coverage_gap = IF better THEN gap ELSE @,
                                  !.retry_num = @ + 1,
                                  !.pc = IF resolved \/ last THEN "store"
                                         ELSE "retry"]
       \/ cv' = [cv EXCEPT !.pc = "failed"]
    /\ UNCHANGED <<life, job, chunks, blobs, audio, queue, up, del, wk, delMid,
                 raised, hook, cb, mt, cg, rl, rt>>

\* await chunk_repo.set_result(chunk_record_id, result)
StoreChunkResult ==
    /\ cv.pc = "store"
    /\ cv' = [cv EXCEPT !.pc = "stored", !.stored = cv.result]
    /\ UNCHANGED <<life, job, chunks, blobs, audio, queue, up, del, wk, delMid,
                 raised, hook, cb, mt, cg, rl, rt>>

\* --------------------------------------------------------------- webhook
\* create_job with a webhook_url.
CreateJobHook ==
    /\ life = "new"
    /\ life' = "live"
    /\ job' = [NewJob EXCEPT !.webhook_url = TRUE]
    /\ UNCHANGED <<chunks, blobs, audio, queue, up, del, wk, delMid,
                 raised, hook, calls>>

\* `except Exception` of _send_webhook: task.retry while
\* task.request.retries < task.max_retries, else return status "failed".
HookRetry(h) ==
    IF h.tries < send_webhook_max_retries
    THEN [h EXCEPT !.queue = Enqueue(@, h.tries + 1), !.pc = "idle"]
    ELSE [h EXCEPT !.pc = "idle"]

\* DB Operation 1 of _send_webhook: load the job and build the payload.
\* Nothing but the job's existence is tested.
HookDeliver ==
    /\ hook.pc = "idle"
    /\ \E r \in 0..send_webhook_max_retries :
        /\ hook.queue[r] > 0
        /\ LET h == [hook EXCEPT !.queue[r] = @ - 1, !.tries = r]
           IN hook' = IF JobExists THEN [h EXCEPT !.pc = "post"]
                      ELSE HookRetry(h)
    /\ UNCHANGED <<life, job, chunks, blobs, audio, queue, up, del, wk, delMid,
                 raised, calls>>

\* client.post(webhook_url, ...) and response.raise_for_status().
HookPost ==
    /\ hook.pc = "post"
    /\ \E ok \in BOOLEAN :
        IF ok
        THEN /\ hook.posts < MaxPosts
             /\ hook' = [hook EXCEPT !.posts = @ + 1, !.pc = "mark"]
        ELSE hook' = HookRetry(hook)
    /\ UNCHANGED <<life, job, chunks, blobs, audio, queue, up, del, wk, delMid,
                 raised, calls>>

\* JobRepository.mark_webhook_sent
mark_webhook_sent(j) == Touch([j EXCEPT !.webhook_sent = TRUE])

\* DB Operation 2 of _send_webhook; on a deleted job get_by_id raises.
HookMark ==
    /\ hook.pc = "mark"
    /\ IF JobExists
       THEN /\ job' = mark_webhook_sent(job)
            /\ hook' = [hook EXCEPT !.pc = "sent"]
       ELSE /\ job' = job
            /\ hook' = HookRetry(hook)
    /\ UNCHANGED <<life, chunks, blobs, audio, queue, up, del, wk, delMid,
                 raised, calls>>

\* The task returns status "sent".
HookReturn ==
    /\ hook.pc = "sent"
    /\ hook' = [hook EXCEPT !.pc = "idle"]
    /\ UNCHANGED <<life, job, chunks, blobs, audio, queue, up, del, wk, delMid,
                 raised, calls>>

\* The process running send_webhook dies; the broker either redelivers the
\* message (at-least-once) or has already dropped it.
HookCrash ==
    /\ hook.pc # "idle"
    /\ \E redeliver \in BOOLEAN :
        hook' = IF redeliver
                THEN [hook EXCEPT !.queue = Enqueue(@, hook.tries),
                                  !.pc = "idle"]
                ELSE [hook EXCEPT !.pc = "idle"]
    /\ UNCHANGED <<life, job, chunks, blobs, audio, queue, up, del, wk, delMid,
                 raised, calls>>

HookStep ==
    \/ HookDeliver
    \/ HookPost
    \/ HookMark
    \/ HookReturn
    \/ HookCrash

Next ==
    \/ OrchestratorNext
    \/ Expire
    \/ CleanupExpired
    \/ CreateJobHook
    \/ \E w \in Workers : WorkerStep(w)
    \/ HookStep

Spec == Init /\ [][Next]_vars

\* The specifications below each take part of Next's disjuncts, so each of
\* their behaviours is a behaviour of Spec.

\* upload_audio used as section 4.7 of the design asks: on a PENDING job.
UploadPending ==
    /\ JobExists
    /\ job.status = "pending"
    /\ UploadStore

\* One worker process and the job's life without deletion or recovery:
\* create, upload, submit, retry, cancel, worker crashes and re-deliveries.
NextSolo ==
    \/ CreateJob
    \/ UploadPending
    \/ UploadCommit
    \/ SubmitJob
    \/ RetryJob
    \/ CancelJob
    \/ WorkerStep("w1")

SpecSolo == Init /\ [][NextSolo]_vars

\* NextSolo with upload_audio in any state and startup recovery.
NextOps ==
    \/ CreateJob
    \/ UploadStore
    \/ UploadCommit
    \/ SubmitJob
    \/ RetryJob
    \/ CancelJob
    \/ Age
    \/ Recover
    \/ WorkerStep("w1")

SpecOps == Init /\ [][NextOps]_vars

\* NextSolo with delete_job.
NextDelete ==
    \/ CreateJob
    \/ UploadPending
    \/ UploadCommit
    \/ SubmitJob
    \/ RetryJob
    \/ CancelJob
    \/ DeleteBlobs
    \/ DeleteRow
    \/ DeleteMissing
    \/ WorkerStep("w1")

SpecDelete == Init /\ [][NextDelete]_vars

\* Two worker processes and the submission path: create, upload, submit.
NextRace ==
    \/ CreateJob
    \/ UploadPending
    \/ UploadCommit
    \/ SubmitJob
    \/ \E w \in Workers : WorkerStep(w)

SpecRace == Init /\ [][NextRace]_vars

\* NextSolo with the retry requests that are rejected.
NextRetry ==
    \/ NextSolo
    \/ RetryRejected

SpecRetry == Init /\ [][NextRetry]_vars

\* A job with a webhook URL from creation to the delivery of its webhook.
NextHook ==
    \/ CreateJobHook
    \/ UploadPending
    \/ UploadCommit
    \/ SubmitJob
    \/ WorkerStep("w1")
    \/ HookStep

SpecHook == Init /\ [][NextHook]_vars

\* One worker process, the passing of time and startup recovery: create,
\* upload, submit, cancel, worker crashes and re-deliveries.
NextRecover ==
    \/ CreateJob
    \/ UploadPending
    \/ UploadCommit
    \/ SubmitJob
    \/ CancelJob
    \/ Age
    \/ Recover
    \/ WorkerStep("w1")

SpecRecover == Init /\ [][NextRecover]_vars

\* SpecRecover where time keeps passing and the service is restarted again
\* and again while a job is stale (the lifespan hook runs at every start).
SpecRestart ==
    /\ Init
    /\ [][NextRecover]_vars
    /\ WF_vars(Age)
    /\ SF_vars(Recover)

\* One worker process, the retention period and the daily janitor.
NextJanitor ==
    \/ CreateJob
    \/ UploadPending
    \/ UploadCommit
    \/ SubmitJob
    \/ Expire
    \/ CleanupExpired
    \/ WorkerStep("w1")

SpecJanitor == Init /\ [][NextJanitor]_vars

\* A call of calculate_chunk_boundaries with M > O >= 0, run to its end: the
\* function is synchronous, each iteration follows the one before.
InitChunker ==
    /\ InitService
    /\ cb \in {c \in ChunkerCalls : c.overlap_duration < c.max_chunk_duration}
    /\ mt = NoCall
    /\ cg = NoCall
    /\ rl = NewLimiter
    /\ rt = NoCall
    /\ cv = NoCall

NextChunker ==
    \/ CalcSingle
    \/ CalcIterate
    \/ CalcExit

SpecChunker == InitChunker /\ [][NextChunker]_vars /\ WF_vars(NextChunker)

\* The results of a job's chunks and their merge.
InitMerger ==
    /\ InitService
    /\ cb = NoCall
    /\ IsMergeCall(mt)
    /\ cg = NoCall
    /\ rl = NewLimiter
    /\ rt = NoCall
    /\ cv = NoCall

NextMerger ==
    \/ ProcessChunks
    \/ Merge

SpecMerger == InitMerger /\ [][NextMerger]_vars

\* The coverage check of one provider result.
InitGap ==
    /\ InitService
    /\ cb = NoCall
    /\ mt = NoCall
    /\ IsGapCall(cg)
    /\ rl = NewLimiter
    /\ rt = NoCall
    /\ cv = NoCall

SpecGap == InitGap /\ [][CheckCoverageGap]_vars

\* A process whose rate limiter may have been configured for the provider,
\* with a burst size or the default one.
InitLimiter ==
    /\ InitService
    /\ cb = NoCall
    /\ mt = NoCall
    /\ cg = NoCall
    /\ rt = NoCall
    /\ cv = NoCall
    /\ \E bucket \in {<<>>}
            \cup {<<configure_provider(gemini_rpm_limit, burst_size, 0)>> :
                    burst_size \in {<<>>, <<1>>}} :
        rl = [NewLimiter EXCEPT !.bucket = bucket]

\* Reports of 429s and of successes, one after the other.
NextAdaptive ==
    \/ Enter("t1", {"report_rate_limit", "report_success"}, MaxReports)
    \/ LimiterStep("t1")
    \/ Tick

SpecAdaptive == InitLimiter /\ [][NextAdaptive]_vars

\* Two coroutines of one event loop use the rate limiter at once.
NextLimiter ==
    \/ \E t \in DOMAIN rl.task :
        \/ Enter(t, {"acquire", "try_acquire", "report_rate_limit",
                     "report_success"}, MaxContended)
        \/ LimiterStep(t)
    \/ Tick

SpecLimiter == InitLimiter /\ [][NextLimiter]_vars

\* A worker process runs job pipelines, each of which transcribes chunks
\* through the retry engine.
NextBackoff ==
    \/ StartJob
    \/ BeginRetry
    \/ Attempt
    \/ CallFn
    \/ ReturnResult
    \/ Except
    \/ Sleep
    \/ LimiterStep("t1")
    \/ Tick

SpecBackoff == Init /\ [][NextBackoff]_vars

\* A chunk is handed to _process_single_chunk, and its transmissions and
\* coverage checks follow.
InitCoverage ==
    /\ InitService
    /\ cb = NoCall
    /\ mt = NoCall
    /\ cg = NoCall
    /\ rl = NewLimiter
    /\ rt = NoCall
    /\ \E duration \in {10, 30} :
        cv = [pc |-> "first", chunk |-> [duration |-> duration],
              obtained |-> <<>>, result |-> <<>>, coverage_gap |-> <<>>,
              retry_num |-> 0, stored |-> <<>>]

NextCoverage ==
    \/ Transmit
    \/ StoreChunkResult

SpecCoverage == InitCoverage /\ [][NextCoverage]_vars

\* ================================================================ claims
Terminal == {"completed", "failed", "cancelled"}

Rank(st) ==
    CASE st = "pending" -> 0
      [] st = "uploaded" -> 1
      [] st = "processing" -> 2
      [] OTHER -> 3

\* Worker w hands a new chunk to the provider in this step.
StartsChunk(w) == wk[w].pc = "check" /\ wk'[w].pc = "call"

\* Worker w writes the merged transcript or stores it on the job in this step.
StoresResult(w) ==
    \/ wk[w].pc = "upload" /\ wk'[w].pc = "setresult"
    \/ wk[w].pc = "setresult" /\ wk'[w].ret = "completed"

\* Rows 0..k-1 completed, row k failed, rows k+1..n-1 pending.
RowsShape(cs, k, n) ==
    /\ DOMAIN cs = 0..(n - 1)
    /\ \A i \in 0..(n - 1) :
        cs[i].status = IF i < k THEN "completed"
                       ELSE IF i = k THEN "failed" ELSE "pending"

\* Worker w's task returns in this step after the job's failure was recorded.
ReturnsFailed(w) ==
    /\ wk[w].pc = "jobfail"
    /\ wk'[w].pc = "idle"
    /\ wk'[w].ret \in {"failed", "failed_nonretryable", "retry"}

\* C1: once a job is completed or cancelled, no step changes its status; the
\* job can only be deleted.
C1_TerminalStatusFinal ==
    [][(JobExists /\ job.status \in {"completed", "cancelled"})
        => (life' = "live" => job'.status = job.status)]_vars

\* C2: the status never moves backwards along pending < uploaded <
\* processing < (completed | failed | cancelled), except failed -> processing.
C2_StatusNeverBackwards ==
    [][(JobExists /\ life' = "live")
        => \/ Rank(job'.status) >= Rank(job.status)
           \/ job.status = "failed" /\ job'.status = "processing"]_vars

\* C3: completed_chunks <= total_chunks in every reachable state.
C3_CompletedAtMostTotal ==
    JobExists => job.completed_chunks <= job.total_chunks

\* C4: a completed job has total_chunks > 0, completed_chunks = total_chunks
\* and a result key.
C4_CompletedJobShape ==
    (JobExists /\ job.status = "completed")
        => /\ job.total_chunks > 0
           /\ job.completed_chunks = job.total_chunks
           /\ job.s3_result_key

\* C5: while the job is cancelled, a running worker starts no provider call
\* for a further chunk and neither merges nor stores a result.
C5_CancelStopsWorker ==
    [][(JobExists /\ job.status = "cancelled")
        => \A w \in Workers : ~StartsChunk(w) /\ ~StoresResult(w)]_vars

\* C6: after a delete_job that ran while a worker was mid-chunk, once the
\* delete has finished and the workers have ended, no chunk row and no blob
\* of the job is left.
C6_DeleteLeavesNothing ==
    (/\ delMid
     /\ life = "gone"
     /\ del = "idle"
     /\ up = "idle"
     /\ \A w \in Workers : wk[w].pc = "idle")
        => chunks = NoChunks /\ blobs = {}

\* C7: a delivery for a job that is completed, failed, cancelled or pending
\* returns at once: job row, chunk rows and blob storage are unchanged and
\* the worker is idle again (no provider call was started).
C7_ShortCircuit ==
    [][\A w \in Workers :
        (Deliver(w) /\ JobExists /\ job.status \in Terminal \cup {"pending"})
            => /\ job' = job
               /\ chunks' = chunks
               /\ blobs' = blobs
               /\ wk'[w].pc = "idle"
               /\ wk'[w].ret \in {"skipped", "skipped_retry"}]_vars

\* The task's own retry was delivered for the job it had marked failed, and
\* was skipped.
C7_Witness ==
    \E w \in Workers :
        /\ wk[w].pc = "idle"
        /\ wk[w].ret = "skipped_retry"
        /\ JobExists
        /\ job.status = "failed"

\* C8: a re-delivered job resumes at its first chunk that is not completed:
\* a completed chunk is skipped with its stored result and without touching
\* the rows or the counters, the chunk being transcribed is preceded only by
\* completed chunks whose stored results are the ones in the results list,
\* and existing chunk rows are neither re-created nor is total_chunks
\* rewritten.
C8_ResumeReusesCompleted ==
    /\ [](\A w \in Workers :
            wk[w].pc \in {"check", "call", "onretry", "persist", "upload"}
                => /\ wk[w].pc # "check" /\ wk[w].pc # "upload"
                        => ~IsCompleted(wk[w].idx)
                   /\ \A i \in 0..(Len(wk[w].results) - 1) :
                        /\ IsCompleted(i)
                        /\ wk[w].results[i + 1] = chunks[i].result)
    /\ [][\A w \in Workers :
            (wk[w].pc = "check" /\ IsCompleted(wk[w].idx)
                /\ wk'[w] # wk[w] /\ wk'[w].pc # "idle")
                => /\ wk'[w].results
                        = Append(wk[w].results, chunks[wk[w].idx].result)
                   /\ wk'[w].pc \in {"check", "upload"}
                   /\ job' = job
                   /\ chunks' = chunks]_vars
    /\ [][DOMAIN chunks # {}
            => /\ DOMAIN chunks' = DOMAIN chunks
               /\ job'.total_chunks = job.total_chunks]_vars

\* A run that found chunk 0 completed and chunk 1 left in processing by an
\* interrupted run has skipped chunk 0 with its stored result.
C8_Witness ==
    \E w \in Workers :
        /\ wk[w].pc = "check"
        /\ wk[w].idx = 1
        /\ wk[w].has_chunks
        /\ 1 \in DOMAIN chunks
        /\ chunks[1].status = "processing"
        /\ chunks[0].result = gap_threshold + 1
        /\ wk[w].results = <<gap_threshold + 1>>

\* C9 as stated: when the task returns after a non-retryable provider error
\* on chunk k, chunks before k are completed, k is failed, the later ones are
\* pending, the job is failed, and chunk k saw exactly one provider call.
C9_FatalCalledOnce ==
    [][\A w \in Workers :
        (ReturnsFailed(w) /\ wk[w].err = "fatal")
            => /\ RowsShape(chunks', wk[w].idx, wk[w].n)
               /\ job'.status = "failed"
               /\ wk[w].attempt = 0
               /\ wk[w].cov = 0]_vars

\* C9 amended: ... and the failing call is the last provider call for chunk
\* k: the error is never handed to the retry callback, the worker goes on to
\* no further call or result, and the task is not re-queued.
C9_FatalStopsChunk ==
    /\ [](\A w \in Workers : wk[w].pc = "onretry" => wk[w].err = "retryable")
    /\ [][\A w \in Workers :
            (wk[w].err = "fatal" /\ wk'[w].pc # "idle")
                => /\ wk'[w].pc \in {"chunkfail", "jobfail"}
                   /\ wk'[w].err = "fatal"]_vars
    /\ [][\A w \in Workers :
            (ReturnsFailed(w) /\ wk[w].err = "fatal")
                => /\ RowsShape(chunks', wk[w].idx, wk[w].n)
                   /\ job'.status = "failed"
                   /\ queue' = queue]_vars

\* The task has returned after a non-retryable error on chunk 1 of 2.
C9_Witness ==
    \E w \in Workers :
        /\ wk[w].ret = "failed_nonretryable"
        /\ job.status = "failed"
        /\ RowsShape(chunks, 1, 2)

\* C10: a retryable error is re-raised only on the attempt numbered
\* max_retries, and when the task then returns, the chunk is failed, the job
\* is failed, earlier chunks are completed and later ones pending.
C10_ExhaustionFailsChunk ==
    /\ [](\A w \in Workers :
            (wk[w].pc \in {"chunkfail", "jobfail"} /\ wk[w].err = "retryable")
                => wk[w].attempt = max_retries)
    /\ [][\A w \in Workers :
            (ReturnsFailed(w) /\ wk[w].err = "retryable")
                => /\ RowsShape(chunks', wk[w].idx, wk[w].n)
                   /\ job'.status = "failed"]_vars

\* The task has returned for a retry after exhausting the attempts on chunk
\* 1 of 2.
C10_Witness ==
    \E w \in Workers :
        /\ wk[w].ret = "retry"
        /\ job.status = "failed"
        /\ RowsShape(chunks, 1, 2)

\* Worker w handles a JobCancelledError raised by on_retry_check in this step.
Cancelling(w) == ChunkFail(w) /\ wk[w].err = "cancelled"

\* C11: a JobCancelledError raised by the retry callback ends the pipeline
\* with the return value "cancelled": it never reaches the task's failure
\* handler, and the step that ends the pipeline leaves the job row (status,
\* error message, error code) as it was.
C11_CancelledNotFailed ==
    /\ [](\A w \in Workers : wk[w].pc = "jobfail" => wk[w].err # "cancelled")
    /\ [][\A w \in Workers :
            Cancelling(w)
                => /\ wk'[w].pc = "idle"
                   /\ wk'[w].ret = "cancelled"
                   /\ job' = job]_vars

\* A pipeline ended by the cancellation check; the job is cancelled and
\* carries neither an error message nor an error code.
C11_Witness ==
    \E w \in Workers :
        /\ wk[w].pc = "idle"
        /\ wk[w].ret = "cancelled"
        /\ JobExists
        /\ job.status = "cancelled"
        /\ ~job.error_message
        /\ ~job.error_code

\* C12: the abort after a JobCancelledError sets no chunk row to failed.
C12_CancelMarksNoChunkFailed ==
    [][\A w \in Workers :
        Cancelling(w)
            => \A i \in DOMAIN chunks :
                (i \in DOMAIN chunks' /\ chunks'[i].status = "failed")
                    => chunks[i].status = "failed"]_vars

\* C13: retry_job on a failed job sets its failed chunks to pending, leaves
\* every other chunk row (status and stored result) and completed_chunks as
\* they were, sets the job to processing and enqueues exactly one message.
C13_RetryResetsFailedOnly ==
    [][RetryJob
        => /\ job.status = "failed"
           /\ DOMAIN chunks' = DOMAIN chunks
           /\ \A i \in DOMAIN chunks :
                IF chunks[i].status = "failed"
                THEN /\ chunks'[i].status = "pending"
                     /\ chunks'[i].result = chunks[i].result
                ELSE chunks'[i] = chunks[i]
           /\ job'.status = "processing"
           /\ job'.completed_chunks = job.completed_chunks
           /\ job'.total_chunks = job.total_chunks
           /\ queue' = [queue EXCEPT ![0] = @ + 1]]_vars

\* retry_job has run on a job that failed for good on chunk 1 of 2: chunk 0
\* is still completed with its result, chunk 1 is pending, one message waits.
C13_Witness ==
    /\ JobExists
    /\ job.status = "processing"
    /\ job.completed_chunks = 1
    /\ DOMAIN chunks = {0, 1}
    /\ chunks[0] = [status |-> "completed", result |-> 0]
    /\ chunks[1].status = "pending"
    /\ QueueLen = 1
    /\ queue[0] = 1
    /\ wk["w1"].pc = "idle"
    /\ wk["w1"].ret = "failed_nonretryable"

\* A retry_job request is rejected in this step.
RetryIsRejected == \E e \in raised' \ raised : e[1] = "retry_job"

\* C14: retry_job is accepted only on a failed job, and a retry_job that is
\* rejected for a job in any other status raises ValueError and leaves the job
\* row, the chunk rows and the queue as they were.
C14_RetryRejectedNoChange ==
    /\ [][RetryJob => job.status = "failed"]_vars
    /\ [][(RetryIsRejected /\ JobExists)
            => /\ job.status # "failed"
               /\ <<"retry_job", "ValueError">> \in raised'
               /\ UNCHANGED <<life, job, chunks, queue, blobs>>]_vars

\* retry_job was rejected for a job that is being processed, with a chunk in
\* flight.
C14_Witness ==
    /\ <<"retry_job", "ValueError">> \in raised
    /\ JobExists
    /\ job.status = "processing"
    /\ 0 \in DOMAIN chunks
    /\ chunks[0].status = "processing"
    /\ QueueLen = 0

\* C15: cancel_job takes effect only on a job that is not completed, failed
\* or cancelled.
C15_CancelOnlyNonTerminal ==
    [][CancelJob => job.status \notin Terminal]_vars

\* C16: delete_job for a job that has been deleted raises no error (and
\* changes neither the job store nor the blob store).
C16_DeleteIdempotent ==
    [][life = "gone"
        => /\ \A e \in raised' \ raised : e[1] # "delete_job"
           /\ DeleteMissing => UNCHANGED <<life, job, chunks, blobs>>]_vars

\* C17: completed_chunks of a job never decreases.
C17_CompletedNeverDecreases ==
    [][(JobExists /\ life' = "live")
        => job'.completed_chunks >= job.completed_chunks]_vars

\* A run that resumed a job with existing chunk rows (after a crash or a
\* retry) has brought the counter to 2 and is about to merge.
C17_Witness ==
    \E w \in Workers :
        /\ wk[w].pc = "upload"
        /\ wk[w].has_chunks
        /\ Len(wk[w].results) = 2
        /\ JobExists
        /\ job.completed_chunks = 2

\* Every chunk row before index i is completed.
EarlierCompleted(cs, i) ==
    \A j \in 0..(i - 1) : j \in DOMAIN cs /\ cs[j].status = "completed"

\* C18: with one pipeline running, a chunk is sent to the provider, marked
\* processing and given its result only when every chunk before it is
\* completed, and at most one chunk row is processing at a time.
C18_ChunksInIndexOrder ==
    /\ [](\A w \in Workers :
            wk[w].pc \in {"call", "onretry", "persist"}
                => EarlierCompleted(chunks, wk[w].idx))
    /\ [](Cardinality({i \in DOMAIN chunks :
                        chunks[i].status = "processing"}) <= 1)
    /\ [][\A i \in DOMAIN chunks \cap DOMAIN chunks' :
            (/\ chunks'[i].status \in {"processing", "completed"}
             /\ chunks'[i].status # chunks[i].status)
                => EarlierCompleted(chunks, i)]_vars

\* Chunk 1 of a fresh run is with the provider after chunk 0 was stored.
C18_Witness ==
    \E w \in Workers :
        /\ wk[w].pc = "call"
        /\ wk[w].idx = 1
        /\ ~wk[w].has_chunks
        /\ chunks[0].status = "completed"
        /\ chunks[1].status = "processing"
        /\ job.completed_chunks = 1

\* C19: once webhook_sent is true, no further POST is made for the job.
C19_NoPostAfterSent ==
    [][(JobExists /\ job.webhook_sent) => hook'.posts = hook.posts]_vars

\* The job is one that fail_stale_jobs selects.
IsStale(j) == j.status \in {"processing", "uploaded"} /\ j.stale

\* C20: startup recovery sets a job to failed (with an error message, no
\* other column changed but updated_at) exactly when it is processing or
\* uploaded and older than stale_minutes; any other job row and every chunk
\* row is left unchanged.
C20_RecoveryFailsStaleOnly ==
    [][Recover
        => /\ IF IsStale(job)
              THEN job' = [job EXCEPT !.status = "failed",
                                      !.error_message = TRUE,
                                      !.stale = FALSE]
              ELSE job' = job
           /\ chunks' = chunks
           /\ UNCHANGED <<life, blobs, queue>>]_vars

\* Recovery has failed a job whose run was interrupted on chunk 0: the job
\* carries an error message but no error code, the chunk is still processing.
C20_Witness ==
    /\ JobExists
    /\ job.status = "failed"
    /\ job.error_message
    /\ ~job.error_code
    /\ 0 \in DOMAIN chunks
    /\ chunks[0].status = "processing"
    /\ \A w \in Workers : wk[w].pc = "idle"

\* The job is processing or uploaded, no message of it is queued and no
\* worker is running it: its worker crashed or its message was lost.
Orphaned ==
    /\ JobExists
    /\ job.status \in {"processing", "uploaded"}
    /\ QueueLen = 0
    /\ \A w \in Workers : wk[w].pc = "idle"

\* C21: if time passes and the service is restarted after that, a job left
\* in processing or uploaded without a worker or a message eventually is
\* failed, completed or cancelled.
C21_OrphanEventuallySettled ==
    Orphaned ~> (JobExists /\ job.status \in Terminal)

\* Recovery has failed an uploaded job that was never picked up: no chunk
\* row was ever created for it.
C21_Witness ==
    /\ JobExists
    /\ job.status = "failed"
    /\ job.s3_original_key
    /\ job.error_message
    /\ ~job.error_code
    /\ DOMAIN chunks = {}
    /\ QueueLen = 0

C23_FailureStoresCode ==
    [][(JobExists /\ life' = "live"
            /\ job.status # "failed" /\ job'.status = "failed")
        => job'.error_message /\ job'.error_code]_vars

\* The list calculate_chunk_boundaries has returned.
Returned == cb.pc = "return" /\ cb.more = 0

\* C24: no chunk of a returned boundary list is longer than
\* max_chunk_duration.
C24_ChunkWithinMax ==
    Returned => \A i \in 1..Len(cb.boundaries) :
                    cb.boundaries[i][2] - cb.boundaries[i][1]
                        <= cb.max_chunk_duration

\* C25: in a returned boundary list of a recording longer than
\* max_chunk_duration, each chunk starts overlap_duration before the end of
\* the chunk before it.
C25_OverlapExact ==
    (Returned /\ cb.duration > cb.max_chunk_duration)
        => \A i \in 1..(Len(cb.boundaries) - 1) :
               cb.boundaries[i + 1][1]
                   = cb.boundaries[i][2] - cb.overlap_duration

\* Three or more chunks, one of them ended at a silence point.
C25_Witness ==
    /\ Returned
    /\ Len(cb.boundaries) >= 3
    /\ cb.overlap_duration > 0
    /\ \E i \in 1..(Len(cb.boundaries) - 1) :
           cb.boundaries[i][2] - cb.boundaries[i][1] # cb.max_chunk_duration

\* Chunks that start at 0, end at the recording's end, are non-empty, lie
\* inside the recording and leave no second of it uncovered; one chunk for
\* a recording of at most max_chunk_duration.
CoversRecording(b, c) ==
    /\ b # <<>>
    /\ b[1][1] = 0
    /\ b[Len(b)][2] = c.duration
    /\ \A i \in 1..Len(b) : 0 <= b[i][1] /\ b[i][1] < b[i][2]
                                /\ b[i][2] <= c.duration
    /\ \A t \in 0..c.duration :
           \E i \in 1..Len(b) : b[i][1] <= t /\ t <= b[i][2]
    /\ c.duration <= c.max_chunk_duration => b = <<<<0, c.duration>>>>

\* C26: every call of calculate_chunk_boundaries returns a boundary list
\* that covers the recording.
C26_ReturnsCover == <>(Returned /\ CoversRecording(cb.boundaries, cb))

\* C27: the merged result of a job of one chunk counts one merged chunk and
\* its full_text is the text of the provider's response for that chunk.
C27_SingleChunkText ==
    (mt.pc = "return" /\ Len(mt.chunks) = 1)
        => /\ mt.final_transcript.chunks_merged = 1
           /\ mt.final_transcript.full_text = mt.responses[1].text

\* The merge has returned segments.
Merged == mt.pc = "return"

\* The recording ends where its last chunk ends.
JobDuration == mt.chunks[Len(mt.chunks)].end_time

\* C28: every segment of a merged result lies inside the recording and is
\* non-empty, and the segments are in order of their starts.
C28_SegmentsOrdered ==
    Merged =>
        LET out == mt.final_transcript.segments
        IN  /\ \A i \in 1..Len(out) :
                   /\ 0 <= out[i].start_time
                   /\ out[i].start_time < out[i].end_time
                   /\ out[i].end_time <= JobDuration
            /\ \A i \in 1..(Len(out) - 1) :
                   out[i].start_time <= out[i + 1].start_time

\* The raw speaker id of each segment of the merged result: the id the
\* provider gave it, SPEAKER_00 when it gave none.
RawIds ==
    IF Len(mt.results) = 1
    THEN [i \in 1..Len(mt.results[1].segments) |->
             Or(mt.results[1].segments[i].speaker_id, "SPEAKER_00")]
    ELSE [i \in 1..Len(mt.deduped_segments) |->
             mt.deduped_segments[i].speaker_id]

\* C29: two merged segments have the same speaker label exactly when they
\* had the same raw id, and the label of a segment is SPEAKER_0k, k being
\* the number of distinct raw ids that appeared before its raw id did.
C29_SpeakerBijection ==
    Merged =>
        LET out == mt.final_transcript.segments
            FirstAt(i) == CHOOSE j \in 1..i :
                              /\ RawIds[j] = RawIds[i]
                              /\ \A h \in 1..(j - 1) : RawIds[h] # RawIds[i]
        IN  /\ Len(out) = Len(RawIds)
            /\ \A i \in 1..Len(out) : \A j \in 1..Len(out) :
                   out[i].speaker_id = out[j].speaker_id
                       <=> RawIds[i] = RawIds[j]
            /\ \A i \in 1..Len(out) :
                   out[i].speaker_id =
                       "SPEAKER_0" \o ToString(
                           Cardinality({RawIds[h] : h \in 1..(FirstAt(i) - 1)}))

\* Two chunks with the same raw id in both, a second raw id, and a
\* segment without one.
C29_Witness ==
    /\ Merged
    /\ Len(mt.chunks) = 2
    /\ Len(mt.final_transcript.segments) = 2
    /\ mt.responses[1].segments # <<>>
    /\ mt.responses[2].segments # <<>>
    /\ mt.responses[1].segments[1].speaker_id = "A"
    /\ mt.responses[2].segments[1].speaker_id = None
    /\ mt.final_transcript.segments[1].speaker_id = "SPEAKER_00"
    /\ mt.final_transcript.segments[2].speaker_id = "SPEAKER_01"

\* _check_coverage_gap has returned for a result with segments.
GapReturned == cg.pc = "return" /\ cg.result.segments # <<>>

\* The largest of a non-empty set of numbers.
Largest(S) == CHOOSE x \in S : \A y \in S : y <= x

\* C30 as stated: the gap is the larger of the first segment's start and
\* the chunk's duration minus the last segment's end, that end clamped to
\* the duration; None when it is not positive.
C30_GapClampsLastEnd ==
    GapReturned =>
        LET segs == cg.result.segments
            d == cg.chunk.duration
            gap == Largest({segs[1].start_time,
                            d - Min(segs[Len(segs)].end_time, d)})
        IN  cg.coverage_gap = IF gap > 0 THEN <<gap>> ELSE <<>>

\* C30, amended: the duration when there are no segments; otherwise the
\* larger of the first segment's start and the duration minus e, where e
\* is the last segment's end when that is within the duration, and else
\* the largest clamped end of the segments that start within the duration
\* (0 when none does); None when that is not positive.  A chunk of 6 with
\* the segment (0, 4) gives 2; with (0, 5), (5, 7) it gives None.
C30_GapIgnoresLateSegments ==
    /\ (cg.pc = "return" /\ cg.result.segments = <<>>)
           => cg.coverage_gap = <<cg.chunk.duration>>
    /\ GapReturned =>
           LET segs == cg.result.segments
               d == cg.chunk.duration
               last == segs[Len(segs)]
               e == IF last.end_time <= d THEN last.end_time
                    ELSE Largest({0} \cup
                             {Min(segs[i].end_time, d) :
                                 i \in {j \in 1..Len(segs) :
                                           segs[j].start_time <= d}})
               gap == Largest({segs[1].start_time, d - e})
           IN  cg.coverage_gap = IF gap > 0 THEN <<gap>> ELSE <<>>
    /\ (GapReturned /\ cg.chunk.duration = 6)
           => /\ cg.result.segments = <<[start_time |-> 0, end_time |-> 4]>>
                  => cg.coverage_gap = <<2>>
              /\ cg.result.segments = <<[start_time |-> 0, end_time |-> 5],
                                        [start_time |-> 5, end_time |-> 7]>>
                  => cg.coverage_gap = <<>>

\* The last segment starts after the chunk's end and the one before it
\* ends early: the gap is counted from the earlier segment's end.
C30_Witness ==
    /\ GapReturned
    /\ cg.chunk.duration = 6
    /\ cg.result.segments = <<[start_time |-> 0, end_time |-> 1],
                              [start_time |-> 7, end_time |-> 8]>>
    /\ cg.coverage_gap = <<5>>

\* The adaptive factor of the provider's bucket.
Factor(limiter) == limiter.bucket[1].adaptive_factor

\* Coroutine t runs the body of the given operation in this step.
Runs(t, op) ==
    /\ rl.task[t].pc = "locked"
    /\ rl.task[t].op = op
    /\ rl'.task[t].pc # "locked"

\* C31: on a configured provider the adaptive factor starts at 1 and stays
\* within [0.1, 1.0] after any sequence of reports; a rate-limit report sets
\* it to max(0.1, factor * 0.5), a success report to min(1.0, factor * 1.1),
\* and nothing else changes it.
C31_FactorInRange ==
    /\ [](rl.bucket # <<>> =>
            /\ Leq(Frac(1, 10), Factor(rl))
            /\ Leq(Factor(rl), Frac(1, 1))
            /\ rl.reports = 0 => Factor(rl) = Frac(1, 1))
    /\ [][rl.bucket # <<>> =>
            LET halved == Times(Factor(rl), Frac(1, 2))
                raised_factor == Times(Factor(rl), Frac(11, 10))
            IN  /\ rl'.bucket # <<>>
                /\ Factor(rl') =
                     IF \E t \in DOMAIN rl.task : Runs(t, "report_rate_limit")
                     THEN IF Leq(Frac(1, 10), halved) THEN halved
                          ELSE Frac(1, 10)
                     ELSE IF \E t \in DOMAIN rl.task : Runs(t, "report_success")
                     THEN IF Leq(raised_factor, Frac(1, 1)) THEN raised_factor
                          ELSE Frac(1, 1)
                     ELSE Factor(rl)]_vars

\* Four rate-limit reports have brought the factor to its floor (0.5, 0.25,
\* 0.125, then 0.1 instead of 0.0625) and a success report has raised it to
\* 0.11.
C31_Witness ==
    /\ rl.bucket # <<>>
    /\ rl.reports = 5
    /\ rl.task["t1"].pc = "idle"
    /\ Factor(rl) = Frac(11, 100)

\* retry_with_backoff has been called and has not been left behind by the
\* next job.
InRetry == rt.pc \in {"attempt", "call", "return", "except", "sleep",
                      "returned", "raised"}

\* What the trace lists for the calls of func.
FuncEvents == {"result", "RateLimitError", "ProviderError", "Exception"}

\* The positions of the trace that list one of the given events.
Positions(events) == {i \in 1..Len(rt.trace) : rt.trace[i][1] \in events}

\* The attempt numbered max_retries has failed with an error that is not a
\* non-retryable ProviderError: the retries are exhausted.
Exhausting ==
    /\ rt.pc \in {"except", "raised"}
    /\ rt.attempt >= max_retries
    /\ rt.last_exception[1].retryable # <<FALSE>>

\* C32: retry_with_backoff calls func at most max_retries + 1 times; it
\* returns the result of the first call that succeeds; and once the attempt
\* numbered max_retries has failed it raises without invoking on_retry and
\* without sleeping again, neither in its own back-off nor inside a call it
\* awaits.
C32_BoundedThenRaises ==
    InRetry =>
        /\ Cardinality(Positions(FuncEvents)) <= max_retries + 1
        /\ rt.pc \in {"return", "returned"} =>
            /\ rt.result = <<rt.attempt>>
            /\ \A i \in Positions({"result"}) : rt.trace[i][2] = rt.attempt
        /\ Exhausting =>
            /\ \A i \in Positions({"on_retry", "sleep"}) :
                    rt.trace[i][2] < rt.attempt
            /\ rl.task["t1"].pc # "sleep"

\* C33: when the retries are exhausted the error that leaves
\* retry_with_backoff is a retryable ProviderError (RateLimitError is one)
\* with the message of the last failed attempt, whatever the attempts raised.
C33_ExhaustionSurfacesRetryable ==
    rt.pc = "raised" /\ Exhausting =>
        /\ rt.result[1].type \in {"ProviderError", "RateLimitError"}
        /\ rt.result[1].retryable = <<TRUE>>
        /\ rt.result[1].message = rt.attempt

\* C34: with a provider set, every call of func comes right after the one
\* acquire(provider) of its attempt; report_success(provider) is called once,
\* right after a call of func that returned, and never otherwise; and every
\* attempt that raised RateLimitError is followed at once by one
\* report_rate_limit(provider, retry_after) with the error's retry_after,
\* before the retry delay.
C34_LimiterCallsPerAttempt ==
    InRetry /\ rt.provider # <<>> =>
        LET n == Len(rt.trace)
            At(i) == rt.trace[i]
        IN  /\ \A i \in Positions(FuncEvents) :
                /\ i > 1 /\ At(i - 1) = <<"acquire", At(i)[2]>>
                /\ Cardinality({j \in Positions({"acquire"}) :
                                    At(j)[2] = At(i)[2]}) = 1
            /\ rt.pc = "call" => rl.task["t1"].op = "acquire"
            /\ Cardinality(Positions({"report_success"})) <= 1
            /\ Positions({"report_success"}) # {}
                    <=> rt.pc \in {"return", "returned"}
            /\ \A i \in Positions({"result"}) :
                    i = n - 1 /\ At(n) = <<"report_success", At(i)[2]>>
            /\ rt.pc = "return" => rl.task["t1"].op = "report_success"
            /\ \A i \in Positions({"RateLimitError"}) :
                /\ i < n /\ At(i + 1) = <<"report_rate_limit", At(i)[2]>>
                /\ \A j \in Positions({"sleep"}) :
                        At(j)[2] = At(i)[2] => j > i + 1
            /\ \A j \in Positions({"report_rate_limit"}) :
                    At(j - 1) = <<"RateLimitError", At(j)[2]>>
            /\ rt.pc = "except" /\ rt.last_exception[1].type = "RateLimitError"
                    => /\ rl.task["t1"].op = "report_rate_limit"
                       /\ rl.task["t1"].retry_after
                            = rt.last_exception[1].retry_after

\* The first attempt was rate limited and the second one succeeded.
C34_Witness ==
    /\ rt.pc = "returned"
    /\ rt.provider = <<"gemini">>
    /\ rt.trace = <<<<"acquire", 0>>, <<"RateLimitError", 0>>,
                    <<"report_rate_limit", 0>>, <<"on_retry", 0>>,
                    <<"sleep", 0>>, <<"acquire", 1>>, <<"result", 1>>,
                    <<"report_success", 1>>>>

\* C35: after a failed attempt that is going to be retried, on_retry is
\* invoked before anything sleeps, the back-off sleep included; and when
\* on_retry raises JobCancelledError the call ends there, with no sleep, no
\* acquire and no call of func after it, and that error reaches the caller.
C35_OnRetryBeforeSleep ==
    InRetry /\ rt.on_retry =>
        LET n == Len(rt.trace)
        IN  /\ \A j \in Positions({"sleep"}) :
                    rt.trace[j - 1] = <<"on_retry", rt.trace[j][2]>>
            /\ rt.pc = "except" /\ rt.attempt < max_retries
                /\ rt.last_exception[1].retryable # <<FALSE>>
                    => rl.task["t1"].pc # "sleep"
            /\ \A j \in Positions({"on_retry"}) :
                    rt.pc = "raised" /\ rt.result[1].type = "JobCancelledError"
                    /\ rt.trace[j][2] = rt.attempt
                        => j = n /\ rl.task["t1"].pc = "idle"
            /\ rt.pc = "raised" /\ rt.result[1].type = "JobCancelledError"
                    => n > 0 /\ rt.trace[n] = <<"on_retry", rt.attempt>>

\* The gap of the i-th result obtained for the chunk, an absent gap being 0.
GapSize(i) ==
    LET gap == check_coverage_gap(cv.obtained[i], cv.chunk)
    IN  IF gap = <<>> THEN 0 ELSE gap[1]

\* C36: a chunk is retransmitted only while the gap of what was obtained
\* exceeds max(5, 0.2 * chunk.duration), at most max_coverage_retries times
\* after the first transmission; retransmission stops as soon as a result's
\* gap is absent or within the threshold; and the result kept, and then
\* persisted, is the first one with the smallest gap among those obtained.
C36_SmallestGapKept ==
    cv # NoCall =>
        LET n == Len(cv.obtained)
            Over(i) == ExceedsThreshold(
                           check_coverage_gap(cv.obtained[i], cv.chunk), cv.chunk)
        IN  /\ n <= 1 + max_coverage_retries
            /\ \A i \in 1..(n - 1) : Over(i)
            /\ cv.pc = "retry" => n >= 1 /\ Over(n) /\ n = cv.retry_num + 1
            /\ cv.pc \in {"store", "stored"} =>
                    /\ n >= 1
                    /\ Over(n) => n = 1 + max_coverage_retries
            /\ n >= 1 =>
                    \E k \in 1..n :
                        /\ cv.result = <<cv.obtained[k]>>
                        /\ \A i \in 1..n : GapSize(k) <= GapSize(i)
                        /\ \A i \in 1..(k - 1) : GapSize(k) < GapSize(i)
            /\ cv.pc = "stored" => cv.stored = cv.result

\* Three transmissions, the third with the same gap as the second but other
\* segments: the second was stored.
C36_Witness ==
    /\ cv # NoCall
    /\ cv.pc = "stored"
    /\ Len(cv.obtained) = 3
    /\ GapSize(2) < GapSize(1)
    /\ GapSize(3) = GapSize(2)
    /\ cv.obtained[3] # cv.obtained[2]
    /\ cv.stored = <<cv.obtained[2]>>

\* The start-sorted segments of a merge of two or more chunks, and what
\* _deduplicate_overlaps has emitted after the first k of them (after all
\* of them: the deduped_segments of the merge).
SortedSegments ==
    SortByStart(all_segments(mt.results, mt.chunks,
                             Min(Len(mt.results), Len(mt.chunks))))

Emitted(k) ==
    IF k = Len(SortedSegments) THEN mt.deduped_segments
    ELSE deduplicate_overlaps(SubSeq(SortedSegments, 1, k))

Deduplicated == mt # NoCall /\ mt.pc = "return" /\ Len(mt.results) > 1

\* The segment s = SortedSegments[k] meets the last segment emitted so far.
Overlaps(k) ==
    SortedSegments[k].start_time
        < Emitted(k - 1)[Len(Emitted(k - 1))].end_time - overlap_threshold

Dissimilar(k) ==
    ~texts_similar(Emitted(k - 1)[Len(Emitted(k - 1))].text,
                   SortedSegments[k].text)

\* One step of the deduplication, the truncation of a dissimilar overlap
\* being made always, or only when s starts after the previous segment.
DedupStepIs(k, always) ==
    LET before == Emitted(k - 1)
        prev == before[Len(before)]
        s == SortedSegments[k]
        after == Emitted(k)
    IN  IF ~Overlaps(k) THEN after = Append(before, s)
        ELSE IF ~Dissimilar(k)
        THEN /\ Len(after) = Len(before)
             /\ SubSeq(after, 1, Len(before) - 1)
                    = SubSeq(before, 1, Len(before) - 1)
             /\ IF always
                THEN /\ after[Len(after)] \in {prev, s}
                     /\ Len(after[Len(after)].text) >= Len(prev.text)
                     /\ Len(after[Len(after)].text) >= Len(s.text)
                ELSE after[Len(after)]
                        = IF Len(s.text) > Len(prev.text) THEN s ELSE prev
        ELSE after = Append(IF always \/ s.start_time > prev.start_time
                            THEN [before EXCEPT ![Len(before)].end_time =
                                                    s.start_time]
                            ELSE before,
                            s)

\* C37 as stated: in the left-to-right deduplication over start-sorted
\* segments, a segment s starting more than overlap_threshold before the end
\* of the previously emitted segment replaces it or is dropped when the texts
\* are similar, the longer text being kept, and is otherwise kept with the
\* previous segment's end truncated to s.start; any other segment is kept
\* and the previous one left unchanged.
C37_DedupAsStated ==
    Deduplicated => \A k \in 2..Len(SortedSegments) : DedupStepIs(k, TRUE)

\* C37: as above, except that of two similar texts s is kept only when its
\* text is strictly longer (the previous segment is kept on a tie), and that
\* a previous segment with dissimilar text is truncated to s.start only when
\* s starts after it: when both start at the same time both are kept and the
\* previous one is left unchanged.
C37_DedupStepwise ==
    Deduplicated => \A k \in 2..Len(SortedSegments) : DedupStepIs(k, FALSE)

\* Two overlapping segments with dissimilar texts and the same start were
\* merged: both were kept as they were.
C37_Witness ==
    /\ Deduplicated
    /\ \E k \in 2..Len(SortedSegments) :
            /\ Overlaps(k) /\ Dissimilar(k)
            /\ SortedSegments[k].start_time
                    = Emitted(k - 1)[Len(Emitted(k - 1))].start_time
            /\ Emitted(k) = Append(Emitted(k - 1), SortedSegments[k])

\* C38: the rate-limiter state of a provider outlives the job: when a job
\* pipeline starts in a worker process that has run one before, the
\* provider's tokens and adaptive factor are what the earlier job left.
C38_LimiterStateOutlivesJob ==
    [][rt.pc \in {"returned", "raised"} /\ rt'.pc = "job"
            => /\ Factor(rl') = Factor(rl)
               /\ rl'.bucket[1].tokens = rl.bucket[1].tokens]_vars

\* C39: calculate_chunk_boundaries terminates for every duration > 0 with
\* max_chunk_duration > overlap_duration >= 0 and any silence points: every
\* iteration of its loop that goes on to another one has moved current_start
\* forward, every call returns, and the chunk starts of the list returned
\* are strictly increasing.
C39_LoopAdvancesAndReturns ==
    /\ [][cb.pc \in {"call", "loop"} /\ cb'.pc = "loop"
            => cb'.current_start > cb.current_start]_vars
    /\ [](Returned => \A i \in 1..(Len(cb.boundaries) - 1) :
                          cb.boundaries[i][1] < cb.boundaries[i + 1][1])
    /\ <>(cb.pc = "return")

\* Coroutine t is inside `async with lock` of a rate limiter operation.
Inside(t) == rl.task[t].pc \in {"locked", "sleep"}

\* C40: under any interleaving of acquire, try_acquire, report_rate_limit
\* and report_success calls on a configured provider, at most one coroutine
\* is inside the provider's lock, all of them use the same lock, the bucket
\* changes only in a step of the coroutine that holds the lock, the stored
\* tokens stay within [0, max_tokens], and a try_acquire that returns False
\* leaves the bucket as it was.
C40_BucketUnderLock ==
    /\ [](rl.bucket # <<>> =>
            /\ \A t, u \in DOMAIN rl.task : Inside(t) /\ Inside(u) => t = u
            /\ \A t \in DOMAIN rl.task :
                    /\ Inside(t) => rl.task[t].lock \in rl.held
                    /\ rl.task[t].pc \in {"acquire_lock", "locked", "sleep"}
                            => rl.task[t].lock = rl.lock /\ rl.lock # 0
            /\ Leq(Frac(0, 1), rl.bucket[1].tokens)
            /\ Leq(rl.bucket[1].tokens, rl.bucket[1].max_tokens))
    /\ [][/\ rl'.bucket # rl.bucket
                => \E t \in DOMAIN rl.task :
                        /\ Inside(t)
                        /\ rl'.task[t] # rl.task[t]
                        /\ \A u \in DOMAIN rl.task \ {t} :
                                rl'.task[u] = rl.task[u]
          /\ \A t \in DOMAIN rl.task :
                Runs(t, "try_acquire") /\ rl'.task[t].ret = <<FALSE>>
                    => rl'.bucket = rl.bucket /\ rl.bucket # <<>>]_vars

\* A try_acquire has returned False while the other coroutine sleeps in
\* acquire with the provider's lock held.
C40_Witness ==
    /\ rl.bucket # <<>>
    /\ rl.task["t1"].pc = "idle"
    /\ rl.task["t1"].op = "try_acquire"
    /\ rl.task["t1"].ret = <<FALSE>>
    /\ rl.task["t2"].pc = "sleep"
    /\ rl.task["t2"].op = "acquire"
    /\ rl.task["t2"].lock \in rl.held

====
